---------------------------- MODULE Spec2Model ----------------------------
(***************************************************************************)
(* Flow-graph layout, connection editing and timeline derivation of the    *)
(* project planner.                                                        *)
(*                                                                         *)
(*   App (services/geminiService.ts)  task list, undo history, the         *)
(*                                    task-level autoLayoutTasks           *)
(*   TaskDetailModal (unnamed/part_001, lines 1-1023)                      *)
(*                                    sub-step editor with local history,  *)
(*                                    handleAutoLayoutSubSteps, drag and   *)
(*                                    connection gestures                  *)
(*   TaskDetailModal (unnamed/part_001, lines 1024-1825)                   *)
(*                                    second sub-step editor               *)
(*   GanttChartView (components/GanttChartView.tsx)  visible rows, time    *)
(*                                    axis, headers, bars and arrows       *)
(*                                                                         *)
(* One component is mounted at a time (view); five specifications share    *)
(* the variables: SpecLayout (auto-layout of arbitrary graphs), SpecEditor *)
(* (the editing handlers of App and of the two sub-step editors),          *)
(* SpecGantt (the rows of the timeline), SpecTimeline (the timeline on     *)
(* lists with dates and dependencies) and SpecProject (the ways a task     *)
(* list comes into being in App).                                          *)
(*                                                                         *)
(* A date is the number of its day counted from 1970-01-01; a time of day  *)
(* and clock changes of the time zone are not modelled.                    *)
(*                                                                         *)
(* Node ids are opaque strings in the program; here they are the naturals  *)
(* 1, 2, ...  The id 0 is never the id of a node: an edge whose target is  *)
(* 0 is an edge to an id that is not in the node list.                     *)
(***************************************************************************)
EXTENDS Integers, Sequences, FiniteSets, TLC

VARIABLES
    view,               \* which component is mounted
    tasks,              \* App: tasks (ProjectTask[])
    history,            \* App: history (ProjectTask[][])
    redoHistory,        \* App: redoHistory
    subSteps,           \* TaskDetailModal: editableTask.extendedDetails.subSteps
    subStepCanvasSize,  \* TaskDetailModal: editableTask.extendedDetails.subStepCanvasSize
    localHistory,       \* TaskDetailModal: localHistory
    localRedoHistory,   \* TaskDetailModal: localRedoHistory
    cardHeights,        \* DOM: offsetHeight of each sub-step card
    canvasWidth,        \* DOM: clientWidth of the sub-step canvas
    levels,             \* the columns computed by the latest auto-layout run
    layoutRuns,         \* number of auto-layout runs so far
    connectingState,    \* TaskDetailModal: connectingState (Idle: null)
    draggedSubStepId,   \* TaskDetailModal: draggedSubStepIdRef.current (0: null)
    nextId,             \* the id the next generateUniqueId call returns
    edits,              \* second editor: number of edits so far
    lastOp,             \* the handler that ran last, with its arguments
    data,               \* GanttChartView: data (GanttItem[])
    expandedItems,      \* GanttChartView: expandedItems
    actionFilter,       \* GanttChartView: actionFilter
    zoomLevel,          \* GanttChartView: zoomLevel
    dateRange,          \* GanttChartView: dateRange (start, end; NaD: '')
    showDependencies,   \* GanttChartView: showDependencies
    today               \* the day new Date() falls on

appVars == <<tasks, history, redoHistory>>
modalVars == <<subSteps, subStepCanvasSize, localHistory, localRedoHistory,
               connectingState, draggedSubStepId>>
domVars == <<cardHeights, canvasWidth>>
timeVars == <<zoomLevel, dateRange, showDependencies, today>>
ganttVars == <<data, expandedItems, actionFilter, zoomLevel, dateRange,
               showDependencies, today>>

vars == <<view, tasks, history, redoHistory, subSteps, subStepCanvasSize,
          localHistory, localRedoHistory, cardHeights, canvasWidth,
          levels, layoutRuns, connectingState, draggedSubStepId, nextId,
          edits, lastOp, data, expandedItems, actionFilter, zoomLevel, dateRange,
          showDependencies, today>>

(***************************************************************************)
(* Bounds of the model.                                                    *)
(***************************************************************************)
MaxNodes == 3
MaxEdges == 3
MaxRuns == 2
MaxHist == 1

(***************************************************************************)
(* Generic helpers.                                                        *)
(***************************************************************************)
Max(a, b) == IF a >= b THEN a ELSE b

MaxOf(S) == CHOOSE m \in S : \A n \in S : m >= n

Range(s) == {s[i] : i \in DOMAIN s}

RECURSIVE SumSeq(_)
SumSeq(s) == IF s = <<>> THEN 0 ELSE Head(s) + SumSeq(Tail(s))

RECURSIVE Flat(_)
Flat(ss) == IF ss = <<>> THEN <<>> ELSE Head(ss) \o Flat(Tail(ss))

\* number of entries of the sequence s that equal v
Count(s, v) == Len(SelectSeq(s, LAMBDA e : e = v))

\* the last n entries of s  (Array.prototype.slice(-n))
LastN(s, n) == IF Len(s) <= n THEN s ELSE SubSeq(s, Len(s) - n + 1, Len(s))

NoPosition == [x |-> -1, y |-> -1]

(***************************************************************************)
(* Kahn's waves: the while loop of autoLayoutTasks, which is repeated      *)
(* verbatim in handleAutoLayoutSubSteps.                                   *)
(***************************************************************************)
\* Relax as a plain breadth-first visit: a successor is queued when it is
\* first reached instead of when its in-degree reaches zero
RECURSIVE Relax_FirstVisit(_, _, _)
Relax_FirstVisit(vs, queue, inDegree) ==
    IF vs = <<>> THEN [queue |-> queue, inDegree |-> inDegree]
    ELSE LET v == Head(vs)
         IN IF inDegree[v] > 0
            THEN Relax_FirstVisit(Tail(vs), Append(queue, v),
                                  [inDegree EXCEPT ![v] = 0])
            ELSE Relax_FirstVisit(Tail(vs), queue, inDegree)

\* (adj.get(u) || []).forEach(v => { inDegree--; if (inDegree === 0) queue.push(v) })
RECURSIVE Relax(_, _, _)
Relax(vs, queue, inDegree) ==
    IF vs = <<>> THEN [queue |-> queue, inDegree |-> inDegree]
    ELSE LET v == Head(vs)
             d == inDegree[v] - 1
         IN Relax(Tail(vs),
                  IF d = 0 THEN Append(queue, v) ELSE queue,
                  [inDegree EXCEPT ![v] = d])

\* ProcessWave with the loop bound re-read from the queue: the wave runs until
\* the queue is empty
RECURSIVE ProcessWave_Drain(_, _, _, _, _)
ProcessWave_Drain(levelSize, queue, inDegree, adj, currentLevel) ==
    IF queue = <<>>
    THEN [queue |-> queue, inDegree |-> inDegree, level |-> currentLevel]
    ELSE LET u == Head(queue)
             r == Relax(adj[u], Tail(queue), inDegree)
         IN ProcessWave_Drain(levelSize - 1, r.queue, r.inDegree, adj,
                              Append(currentLevel, u))

\* for (let i = 0; i < levelSize; i++) { const u = queue.shift(); ... }
RECURSIVE ProcessWave(_, _, _, _, _)
ProcessWave(levelSize, queue, inDegree, adj, currentLevel) ==
    IF levelSize = 0
    THEN [queue |-> queue, inDegree |-> inDegree, level |-> currentLevel]
    ELSE LET u == Head(queue)
             r == Relax(adj[u], Tail(queue), inDegree)
         IN ProcessWave(levelSize - 1, r.queue, r.inDegree, adj,
                        Append(currentLevel, u))

\* while (queue.length > 0) { ...; level++ }
RECURSIVE KahnWaves(_, _, _, _)
KahnWaves(queue, inDegree, adj, done) ==
    IF queue = <<>> THEN done
    ELSE LET w == ProcessWave(Len(queue), queue, inDegree, adj, <<>>)
         IN KahnWaves(w.queue, w.inDegree, adj, Append(done, w.level))

(***************************************************************************)
(* App.autoLayoutTasks                                                     *)
(***************************************************************************)
CARD_WIDTH == 380
HORIZONTAL_SPACING == 60
VERTICAL_SPACING == 50
CARD_HEIGHT == 280

IdsOf(nodes) == {nodes[i].id : i \in DOMAIN nodes}

IdSeq(nodes) == [i \in DOMAIN nodes |-> nodes[i].id]

\* adj: per task the entries of nextTaskIds that are ids of the list
TaskAdj(tasksToLayout) ==
    LET ids == IdsOf(tasksToLayout)
    IN [id \in ids |->
           LET t == CHOOSE t \in Range(tasksToLayout) : t.id = id
           IN SelectSeq(t.nextTaskIds, LAMBDA n : n \in ids)]

\* inDegree: one per kept entry
InDegreeOf(nodes, adj) ==
    [id \in IdsOf(nodes) |->
        SumSeq([i \in DOMAIN nodes |-> Count(adj[nodes[i].id], id)])]

\* TasksPerLevel without the "remaining nodes" step
TasksPerLevel_NoRemaining(tasksToLayout) ==
    LET adj == TaskAdj(tasksToLayout)
        inDegree == InDegreeOf(tasksToLayout, adj)
        queue == SelectSeq(IdSeq(tasksToLayout), LAMBDA id : inDegree[id] = 0)
    IN KahnWaves(queue, inDegree, adj, <<>>)

\* tasksPerLevel after the while loop and the "remaining nodes" step
TasksPerLevel(tasksToLayout) ==
    LET adj == TaskAdj(tasksToLayout)
        inDegree == InDegreeOf(tasksToLayout, adj)
        queue == SelectSeq(IdSeq(tasksToLayout), LAMBDA id : inDegree[id] = 0)
        waves == KahnWaves(queue, inDegree, adj, <<>>)
        laidOutNodes == Range(Flat(waves))
        remainingNodes == SelectSeq(IdSeq(tasksToLayout),
                                    LAMBDA id : id \notin laidOutNodes)
    IN IF Len(remainingNodes) > 0 THEN Append(waves, remainingNodes) ELSE waves

\* TaskLevelPositions with columns one card width apart, without spacing
TaskLevelPositions_Tight(tasksInLevel, lvlIdx) ==
    LET n == Len(tasksInLevel)
        levelHeight == n * CARD_HEIGHT + (n - 1) * VERTICAL_SPACING
        startY == Max(20, (500 - levelHeight) \div 2)
    IN [k \in 1..n |->
           [id |-> tasksInLevel[k],
            pos |-> [x |-> lvlIdx * CARD_WIDTH + 20,
                     y |-> startY + (k - 1) * (CARD_HEIGHT + VERTICAL_SPACING)]]]

\* newPositions of one level
TaskLevelPositions(tasksInLevel, lvlIdx) ==
    LET n == Len(tasksInLevel)
        levelHeight == n * CARD_HEIGHT + (n - 1) * VERTICAL_SPACING
        startY == Max(20, (500 - levelHeight) \div 2)
    IN [k \in 1..n |->
           [id |-> tasksInLevel[k],
            pos |-> [x |-> lvlIdx * (CARD_WIDTH + HORIZONTAL_SPACING) + 20,
                     y |-> startY + (k - 1) * (CARD_HEIGHT + VERTICAL_SPACING)]]]

\* newPositions: the entries of all levels, in the order they are set
TaskNewPositions(tasksPerLevel) ==
    Flat([l \in DOMAIN tasksPerLevel |->
             TaskLevelPositions(tasksPerLevel[l], l - 1)])

\* Map.get on a list of entries: the last entry set for the id wins
MapGet(entries, id, default) ==
    LET hits == SelectSeq(entries, LAMBDA e : e.id = id)
    IN IF hits = <<>> THEN default ELSE hits[Len(hits)].pos

\* autoLayoutTasks with the computed y added to the y a task already has
autoLayoutTasks_Shift(tasksToLayout) ==
    IF Len(tasksToLayout) = 0 THEN tasksToLayout
    ELSE LET newPositions == TaskNewPositions(TasksPerLevel(tasksToLayout))
         IN [index \in DOMAIN tasksToLayout |->
                LET task == tasksToLayout[index]
                    new == MapGet(newPositions, task.id, NoPosition)
                    oldY == IF task.position # NoPosition THEN task.position.y ELSE 0
                IN [task EXCEPT !.position = [x |-> new.x, y |-> oldY + new.y]]]

autoLayoutTasks(tasksToLayout) ==
    IF Len(tasksToLayout) = 0 THEN tasksToLayout
    ELSE LET newPositions == TaskNewPositions(TasksPerLevel(tasksToLayout))
         IN [index \in DOMAIN tasksToLayout |->
                LET task == tasksToLayout[index]
                    fallback == IF task.position # NoPosition THEN task.position
                                ELSE [x |-> 20, y |-> 20 + (index - 1) * 100]
                IN [task EXCEPT !.position =
                        MapGet(newPositions, task.id, fallback)]]

(***************************************************************************)
(* TaskDetailModal.handleAutoLayoutSubSteps                                *)
(***************************************************************************)
hSpacing == 60
vSpacing == 20
CardWidth == 224

\* cardDimensions: offsetWidth is the fixed w-56 of SubStepCard, offsetHeight
\* is what the DOM reports for the card
CardDimensions(nodes, heights) ==
    [id \in IdsOf(nodes) |-> [width |-> CardWidth, height |-> heights[id]]]

\* adj: per sub-step the entries of nextSubStepIds that are ids of the list
SubStepAdj(nodes) ==
    LET ids == IdsOf(nodes)
    IN [id \in ids |->
           LET ss == CHOOSE ss \in Range(nodes) : ss.id = id
           IN SelectSeq(ss.nextSubStepIds, LAMBDA n : n \in ids)]

\* SubStepLevels with one column for each of the remaining nodes
SubStepLevels_Spread(nodes) ==
    LET adj == SubStepAdj(nodes)
        inDegree == InDegreeOf(nodes, adj)
        queue == SelectSeq(IdSeq(nodes), LAMBDA id : inDegree[id] = 0)
        waves == KahnWaves(queue, inDegree, adj, <<>>)
        laidOutNodes == Range(Flat(waves))
        remainingNodes == SelectSeq(IdSeq(nodes), LAMBDA id : id \notin laidOutNodes)
    IN waves \o [k \in DOMAIN remainingNodes |-> <<remainingNodes[k]>>]

\* levels after "1. Topological Sort"
SubStepLevels(nodes) ==
    LET adj == SubStepAdj(nodes)
        inDegree == InDegreeOf(nodes, adj)
        queue == SelectSeq(IdSeq(nodes), LAMBDA id : inDegree[id] = 0)
        waves == KahnWaves(queue, inDegree, adj, <<>>)
        visitedCount == Len(Flat(waves))
        laidOutNodes == Range(Flat(waves))
        remainingNodes == SelectSeq(IdSeq(nodes), LAMBDA id : id \notin laidOutNodes)
    IN IF visitedCount < Len(nodes) /\ Len(remainingNodes) > 0
       THEN Append(waves, remainingNodes)
       ELSE waves

\* levelNodes.forEach(nodeId => newPositions.set(nodeId, {x, y + yOffsetInColumn}))
RECURSIVE PlaceColumn(_, _, _, _, _)
PlaceColumn(levelNodes, dims, currentX, currentY, yOffsetInColumn) ==
    IF levelNodes = <<>> THEN <<>>
    ELSE LET nodeId == Head(levelNodes)
         IN <<[id |-> nodeId,
               pos |-> [x |-> currentX, y |-> currentY + yOffsetInColumn]]>>
            \o PlaceColumn(Tail(levelNodes), dims, currentX, currentY,
                           yOffsetInColumn + dims[nodeId].height + vSpacing)

\* a layout that never starts a new row
Wraps_Never(currentX, columnWidth, cw) == FALSE

\* if (currentX > 10 && currentX + columnWidth > canvasWidth)
Wraps(currentX, columnWidth, cw) == currentX > 10 /\ currentX + columnWidth > cw

\* levels.forEach(levelNodes => ...) of "2. Dynamic Layout Logic with Wrapping"
RECURSIVE PlaceLevels(_, _, _, _, _, _)
PlaceLevels(lvls, dims, cw, currentX, currentY, rowMaxHeight) ==
    IF lvls = <<>> THEN <<>>
    ELSE LET levelNodes == Head(lvls)
             levelCardWidth == MaxOf({dims[id].width : id \in Range(levelNodes)})
             columnWidth == levelCardWidth + hSpacing
             levelColumnHeight ==
                 SumSeq([k \in DOMAIN levelNodes |->
                            dims[levelNodes[k]].height + vSpacing])
                 - (IF Len(levelNodes) > 0 THEN vSpacing ELSE 0)
             wrap == Wraps(currentX, columnWidth, cw)
             x == IF wrap THEN 10 ELSE currentX
             y == IF wrap THEN currentY + rowMaxHeight + vSpacing * 2 ELSE currentY
             rmh == IF wrap THEN 0 ELSE rowMaxHeight
         IN PlaceColumn(levelNodes, dims, x, y, 0)
            \o PlaceLevels(Tail(lvls), dims, cw, x + columnWidth, y,
                           Max(rmh, levelColumnHeight))

SubStepNewPositions(lvls, dims, cw) == PlaceLevels(lvls, dims, cw, 10, 10, 0)

\* the bounding box of the card origins plus 20, the card sizes left out
RequiredCanvasSize_Origins(newPositions, dims) ==
    [width |-> MaxOf({0} \cup {newPositions[k].pos.x : k \in DOMAIN newPositions}) + 20,
     height |-> MaxOf({0} \cup {newPositions[k].pos.y : k \in DOMAIN newPositions}) + 20]

\* "3. Resize Canvas": bounding box of the placed cards plus 20
RequiredCanvasSize(newPositions, dims) ==
    [width |-> MaxOf({0} \cup {newPositions[k].pos.x + dims[newPositions[k].id].width :
                                  k \in DOMAIN newPositions}) + 20,
     height |-> MaxOf({0} \cup {newPositions[k].pos.y + dims[newPositions[k].id].height :
                                   k \in DOMAIN newPositions}) + 20]

\* LayoutSubSteps that also drops the list entries that name no sub-step
LayoutSubSteps_DropEntries(nodes, dims, cw) ==
    LET newPositions == SubStepNewPositions(SubStepLevels(nodes), dims, cw)
    IN [i \in DOMAIN nodes |->
           [nodes[i] EXCEPT !.position =
                                MapGet(newPositions, nodes[i].id, nodes[i].position),
                            !.nextSubStepIds = SubStepAdj(nodes)[nodes[i].id]]]

\* the sub-steps written by updateExtended at the end of the handler
LayoutSubSteps(nodes, dims, cw) ==
    LET newPositions == SubStepNewPositions(SubStepLevels(nodes), dims, cw)
    IN [i \in DOMAIN nodes |->
           [nodes[i] EXCEPT !.position =
               MapGet(newPositions, nodes[i].id, nodes[i].position)]]

(***************************************************************************)
(* The state of the components that are not mounted.                       *)
(***************************************************************************)
DefaultCanvasSize == [width |-> 1200, height |-> 800]

NoOp == [op |-> "none", a |-> 0, b |-> 0]

\* connectingState = null
Idle == [fromId |-> 0, fromPos |-> NoPosition]

AppIdle == tasks = <<>> /\ history = <<>> /\ redoHistory = <<>>

ModalIdle ==
    /\ subSteps = <<>>
    /\ subStepCanvasSize = DefaultCanvasSize
    /\ localHistory = <<>>
    /\ localRedoHistory = <<>>
    /\ connectingState = Idle
    /\ draggedSubStepId = 0

DomIdle == cardHeights = <<>> /\ canvasWidth = 0

\* Invalid Date (new Date of a missing or unparsable string); a date is
\* otherwise the number of its day, counted from 1970-01-01
NaD == -999999

NoRange == [start |-> NaD, end |-> NaD]

TimeIdle ==
    /\ zoomLevel = "day"
    /\ dateRange = NoRange
    /\ showDependencies = TRUE
    /\ today = 0

GanttIdle ==
    /\ data = <<>> /\ expandedItems = {} /\ actionFilter = "all"
    /\ TimeIdle

(***************************************************************************)
(* History wrappers.                                                       *)
(***************************************************************************)
\* recordHistory without the limit on the history
recordHistory_Unbounded(currentTasks) ==
    /\ history' = Append(history, currentTasks)
    /\ redoHistory' = <<>>

\* App.recordHistory(currentTasks)
recordHistory(currentTasks) ==
    /\ history' = Append(LastN(history, 10), currentTasks)
    /\ redoHistory' = <<>>

\* the part of editableTask the model keeps
EditableTask == [subSteps |-> subSteps, subStepCanvasSize |-> subStepCanvasSize]

\* The histories are kept within MaxHist entries by letting a handler that
\* pushes one run only while there is room; the handlers that write without
\* a history are counted in edits and bounded alike.
AppHistoryRoom == Len(history) < MaxHist
HistoryRoom == Len(localHistory) < MaxHist
EditRoom == edits < MaxHist

\* TaskDetailModal.updateEditableTaskWithHistory: push the current task, clear redo
updateEditableTaskWithHistory(newSubSteps, newCanvasSize) ==
    /\ localHistory' = Append(localHistory, EditableTask)
    /\ localRedoHistory' = <<>>
    /\ subSteps' = newSubSteps
    /\ subStepCanvasSize' = newCanvasSize

(***************************************************************************)
(* Auto-layout, applied to every graph of at most MaxNodes nodes and       *)
(* MaxEdges edge entries (duplicates, self loops, cycles and entries that  *)
(* name no node included).                                                 *)
(***************************************************************************)
EdgeSeqs(n) == UNION {[1..k -> (1..n) \X (0..n)] : k \in 0..MaxEdges}

\* the outgoing list of node i: the targets of its entries, in order
NextIds(es, i) ==
    LET sel == SelectSeq(es, LAMBDA e : e[1] = i)
    IN [j \in 1..Len(sel) |-> sel[j][2]]

\* what the DOM reports: the first card taller than the minimum height of 100
\* the others have; a canvas narrower than two columns, or narrower than three
CardHeightChoices(n) == {[i \in 1..n |-> IF i = 1 THEN 160 ELSE 100]}
CanvasWidthChoices == {500, 800}

InitLayout ==
    /\ view \in {"App", "TaskDetailModal"}
    /\ \E n \in 0..MaxNodes :
         \E es \in EdgeSeqs(n) :
           /\ tasks = IF view = "App"
                      THEN [i \in 1..n |-> [id |-> i, nextTaskIds |-> NextIds(es, i),
                                            position |-> NoPosition]]
                      ELSE <<>>
           /\ subSteps = IF view = "TaskDetailModal"
                         THEN [i \in 1..n |-> [id |-> i,
                                               nextSubStepIds |-> NextIds(es, i),
                                               position |-> NoPosition]]
                         ELSE <<>>
           /\ cardHeights \in IF view = "TaskDetailModal"
                              THEN CardHeightChoices(n)
                              ELSE {<<>>}
           /\ nextId = n + 1
    /\ canvasWidth \in IF view = "TaskDetailModal" THEN CanvasWidthChoices ELSE {0}
    /\ history = <<>> /\ redoHistory = <<>>
    /\ subStepCanvasSize = DefaultCanvasSize
    /\ localHistory = <<>> /\ localRedoHistory = <<>>
    /\ connectingState = Idle /\ draggedSubStepId = 0
    /\ edits = 0
    /\ levels = <<>> /\ layoutRuns = 0
    /\ lastOp = NoOp
    /\ GanttIdle

\* ProjectFlowDisplay onAutoLayout: setTasksWithHistory(prev => autoLayoutTasks([...prev]))
OnAutoLayout ==
    /\ view = "App"
    /\ layoutRuns < MaxRuns
    /\ recordHistory(tasks)
    /\ tasks' = autoLayoutTasks(tasks)
    /\ levels' = IF Len(tasks) = 0 THEN <<>> ELSE TasksPerLevel(tasks)
    /\ layoutRuns' = layoutRuns + 1
    /\ lastOp' = [op |-> "onAutoLayout", a |-> 0, b |-> 0]
    /\ UNCHANGED <<view, modalVars, domVars, nextId, ganttVars, edits>>

\* TaskDetailModal.handleAutoLayoutSubSteps
handleAutoLayoutSubSteps ==
    /\ view = "TaskDetailModal"
    /\ layoutRuns < MaxRuns
    /\ layoutRuns' = layoutRuns + 1
    /\ lastOp' = [op |-> "handleAutoLayoutSubSteps", a |-> 0, b |-> 0]
    /\ IF Len(subSteps) = 0
       THEN UNCHANGED <<subSteps, subStepCanvasSize, localHistory,
                        localRedoHistory, levels>>
       ELSE LET dims == CardDimensions(subSteps, cardHeights)
                lvls == SubStepLevels(subSteps)
                newPositions == SubStepNewPositions(lvls, dims, canvasWidth)
            IN /\ updateEditableTaskWithHistory(
                      LayoutSubSteps(subSteps, dims, canvasWidth),
                      RequiredCanvasSize(newPositions, dims))
               /\ levels' = lvls
    /\ UNCHANGED <<view, appVars, domVars, connectingState, draggedSubStepId,
                   nextId, ganttVars, edits>>

NextLayout == OnAutoLayout \/ handleAutoLayoutSubSteps

SpecLayout == InitLayout /\ [][NextLayout]_vars

(***************************************************************************)
(* The editors.  Ids are generated fresh (generateUniqueId); the model     *)
(* hands out the ids 1 .. MaxIds.                                          *)
(***************************************************************************)
MaxIds == 2

\* where the pointer is when a connection drag starts / a card is dropped
PointerPoints == {[x |-> 234, y |-> 60]}
DropPoints == {[x |-> 300, y |-> 200]}

\* Array.from(new Set(list)): the first occurrence of every entry, in order
RECURSIVE Dedupe(_)
Dedupe(list) ==
    IF list = <<>> THEN <<>>
    ELSE LET init == Dedupe(SubSeq(list, 1, Len(list) - 1))
             last == list[Len(list)]
         IN IF last \in Range(init) THEN init ELSE Append(init, last)

(***************************************************************************)
(* TaskDetailModal (first editor, with local history)                      *)
(***************************************************************************)
\* {...ss, ...updates}
Merge(ss, updates) ==
    [f \in DOMAIN ss |-> IF f \in DOMAIN updates THEN updates[f] ELSE ss[f]]

\* handleUpdateSubStep that updates the first sub-step when none has the id
handleUpdateSubStep_FirstIfUnknown(nodes, subStepId, updates) ==
    [i \in DOMAIN nodes |->
        IF nodes[i].id = subStepId \/ (subStepId \notin IdsOf(nodes) /\ i = 1)
        THEN Merge(nodes[i], updates[nodes[i]])
        ELSE nodes[i]]

\* handleUpdateSubStep(subStepId, updates): map over the sub-steps; updates
\* gives, for a sub-step, the fields to overwrite
handleUpdateSubStep(nodes, subStepId, updates) ==
    [i \in DOMAIN nodes |->
        IF nodes[i].id = subStepId
        THEN Merge(nodes[i], updates[nodes[i]])
        ELSE nodes[i]]

handleAddSubStep ==
    /\ view = "TaskDetailModal"
    /\ HistoryRoom
    /\ nextId <= MaxIds
    /\ LET i == Len(subSteps)
           newSubStep == [id |-> nextId, nextSubStepIds |-> <<>>,
                          position |-> [x |-> 10 + (i % 4) * 210,
                                        y |-> (i \div 4) * 90 + 10]]
       IN updateEditableTaskWithHistory(Append(subSteps, newSubStep),
                                        subStepCanvasSize)
    /\ nextId' = nextId + 1
    /\ lastOp' = [op |-> "handleAddSubStep", a |-> nextId, b |-> 0]
    /\ UNCHANGED <<view, appVars, domVars, connectingState, draggedSubStepId,
                   levels, layoutRuns, ganttVars, edits>>

\* the sub-steps handleRemoveSubStep leaves
RemoveSubStepFrom(nodes, idToRemove) ==
    LET kept == SelectSeq(nodes, LAMBDA ss : ss.id # idToRemove)
    IN [i \in DOMAIN kept |->
           [kept[i] EXCEPT !.nextSubStepIds =
               SelectSeq(kept[i].nextSubStepIds, LAMBDA id : id # idToRemove)]]

handleRemoveSubStep(idToRemove) ==
    /\ view = "TaskDetailModal"
    /\ HistoryRoom
    /\ updateEditableTaskWithHistory(RemoveSubStepFrom(subSteps, idToRemove),
                                     subStepCanvasSize)
    /\ lastOp' = [op |-> "handleRemoveSubStep", a |-> idToRemove, b |-> 0]
    /\ UNCHANGED <<view, appVars, domVars, connectingState, draggedSubStepId,
                   nextId, levels, layoutRuns, ganttVars, edits>>

handleSubStepDragStart(subStepId) ==
    /\ view = "TaskDetailModal"
    /\ subStepId \in IdsOf(subSteps)
    /\ draggedSubStepId' = subStepId
    /\ lastOp' = [op |-> "handleSubStepDragStart", a |-> subStepId, b |-> 0]
    /\ UNCHANGED <<view, appVars, domVars, subSteps, subStepCanvasSize,
                   localHistory, localRedoHistory, connectingState, nextId,
                   levels, layoutRuns, ganttVars, edits>>

\* drop on the canvas; returns early without a dragged id or without its card
handleSubStepDrop(point) ==
    /\ view = "TaskDetailModal"
    /\ lastOp' = [op |-> "handleSubStepDrop", a |-> draggedSubStepId, b |-> 0]
    /\ IF draggedSubStepId = 0 \/ draggedSubStepId \notin IdsOf(subSteps)
       THEN UNCHANGED <<subSteps, subStepCanvasSize, localHistory,
                        localRedoHistory, draggedSubStepId>>
       ELSE /\ HistoryRoom
            /\ updateEditableTaskWithHistory(
                   handleUpdateSubStep(subSteps, draggedSubStepId,
                       [ss \in Range(subSteps) |-> [position |-> point]]),
                   subStepCanvasSize)
            /\ draggedSubStepId' = 0
    /\ UNCHANGED <<view, appVars, domVars, connectingState, nextId,
                   levels, layoutRuns, ganttVars, edits>>

handleStartConnection(fromId, fromPos) ==
    /\ view = "TaskDetailModal"
    /\ fromId \in IdsOf(subSteps)
    /\ connectingState' = [fromId |-> fromId, fromPos |-> fromPos]
    /\ lastOp' = [op |-> "handleStartConnection", a |-> fromId, b |-> 0]
    /\ UNCHANGED <<view, appVars, domVars, subSteps, subStepCanvasSize,
                   localHistory, localRedoHistory, draggedSubStepId, nextId,
                   levels, layoutRuns, ganttVars, edits>>

\* the outgoing list after a connection to targetId, duplicates allowed
AddTarget_NoSet(list, targetId) == Append(list, targetId)

\* Array.from(new Set([...(ss.nextSubStepIds || []), targetId]))
AddTarget(list, targetId) == Dedupe(Append(list, targetId))

\* mouse-up on the card targetId
handleEndConnection(targetId) ==
    /\ view = "TaskDetailModal"
    /\ targetId \in IdsOf(subSteps)
    /\ lastOp' = [op |-> "handleEndConnection", a |-> connectingState.fromId,
                  b |-> targetId]
    /\ IF connectingState = Idle
       THEN UNCHANGED <<subSteps, subStepCanvasSize, localHistory,
                        localRedoHistory, connectingState>>
       ELSE IF connectingState.fromId = targetId
       THEN /\ connectingState' = Idle
            /\ UNCHANGED <<subSteps, subStepCanvasSize, localHistory,
                           localRedoHistory>>
       ELSE /\ HistoryRoom
            /\ updateEditableTaskWithHistory(
                   handleUpdateSubStep(subSteps, connectingState.fromId,
                       [ss \in Range(subSteps) |->
                           [nextSubStepIds |-> AddTarget(ss.nextSubStepIds, targetId)]]),
                   subStepCanvasSize)
            /\ connectingState' = Idle
    /\ UNCHANGED <<view, appVars, domVars, draggedSubStepId, nextId,
                   levels, layoutRuns, ganttVars, edits>>

\* handleDeleteConnection that also ends a pending connection drag
handleDeleteConnection_Cancel(sourceId, targetId) ==
    /\ view = "TaskDetailModal"
    /\ HistoryRoom
    /\ updateEditableTaskWithHistory(
           handleUpdateSubStep(subSteps, sourceId,
               [ss \in Range(subSteps) |->
                   [nextSubStepIds |->
                       SelectSeq(ss.nextSubStepIds, LAMBDA id : id # targetId)]]),
           subStepCanvasSize)
    /\ connectingState' = Idle
    /\ lastOp' = [op |-> "handleDeleteConnection", a |-> sourceId, b |-> targetId]
    /\ UNCHANGED <<view, appVars, domVars, draggedSubStepId,
                   nextId, levels, layoutRuns, ganttVars, edits>>

\* click on the connector sourceId -> targetId; the handler looks neither
\* for the sub-step nor for the entry
handleDeleteConnection(sourceId, targetId) ==
    /\ view = "TaskDetailModal"
    /\ HistoryRoom
    /\ updateEditableTaskWithHistory(
           handleUpdateSubStep(subSteps, sourceId,
               [ss \in Range(subSteps) |->
                   [nextSubStepIds |->
                       SelectSeq(ss.nextSubStepIds, LAMBDA id : id # targetId)]]),
           subStepCanvasSize)
    /\ lastOp' = [op |-> "handleDeleteConnection", a |-> sourceId, b |-> targetId]
    /\ UNCHANGED <<view, appVars, domVars, connectingState, draggedSubStepId,
                   nextId, levels, layoutRuns, ganttVars, edits>>

\* handleCanvasMouseUp that forgets to cancel
handleCanvasMouseUp_Keep ==
    /\ view = "TaskDetailModal"
    /\ lastOp' = [op |-> "handleCanvasMouseUp", a |-> connectingState.fromId, b |-> 0]
    /\ UNCHANGED <<view, appVars, domVars, modalVars, nextId, levels,
                   layoutRuns, ganttVars, edits>>

\* mouse-up on the canvas outside every card
handleCanvasMouseUp ==
    /\ view = "TaskDetailModal"
    /\ lastOp' = [op |-> "handleCanvasMouseUp", a |-> connectingState.fromId, b |-> 0]
    /\ connectingState' = Idle
    /\ UNCHANGED <<view, appVars, domVars, subSteps, subStepCanvasSize,
                   localHistory, localRedoHistory, draggedSubStepId, nextId,
                   levels, layoutRuns, ganttVars, edits>>

handleLocalUndo ==
    /\ view = "TaskDetailModal"
    /\ Len(localHistory) > 0
    /\ LET previousState == localHistory[Len(localHistory)]
       IN /\ localHistory' = SubSeq(localHistory, 1, Len(localHistory) - 1)
          /\ localRedoHistory' = <<EditableTask>> \o localRedoHistory
          /\ subSteps' = previousState.subSteps
          /\ subStepCanvasSize' = previousState.subStepCanvasSize
    /\ lastOp' = [op |-> "handleLocalUndo", a |-> 0, b |-> 0]
    /\ UNCHANGED <<view, appVars, domVars, connectingState, draggedSubStepId,
                   nextId, levels, layoutRuns, ganttVars, edits>>

handleLocalRedo ==
    /\ view = "TaskDetailModal"
    /\ Len(localRedoHistory) > 0
    /\ LET nextState == localRedoHistory[1]
       IN /\ localRedoHistory' = Tail(localRedoHistory)
          /\ localHistory' = Append(localHistory, EditableTask)
          /\ subSteps' = nextState.subSteps
          /\ subStepCanvasSize' = nextState.subStepCanvasSize
    /\ lastOp' = [op |-> "handleLocalRedo", a |-> 0, b |-> 0]
    /\ UNCHANGED <<view, appVars, domVars, connectingState, draggedSubStepId,
                   nextId, levels, layoutRuns, ganttVars, edits>>

(***************************************************************************)
(* TaskDetailModal (second editor: no history, no auto-layout, no          *)
(* connector deletion).  It keeps no count of its edits; the model counts  *)
(* them in edits and lets an editing handler run while edits < MaxHist.    *)
(***************************************************************************)
getDefaultSubStepPosition(index) == [x |-> 10, y |-> index * 90 + 10]

\* handleUpdateSubStep(subStepId, updates) of the second editor
handleUpdateSubStep2(nodes, subStepId, updates) ==
    [i \in DOMAIN nodes |->
        IF nodes[i].id = subStepId THEN Merge(nodes[i], updates) ELSE nodes[i]]

handleAddSubStep2 ==
    /\ view = "TaskDetailModal2"
    /\ EditRoom
    /\ nextId <= MaxIds
    /\ subSteps' = Append(subSteps,
                      [id |-> nextId, nextSubStepIds |-> <<>>,
                       position |-> getDefaultSubStepPosition(Len(subSteps))])
    /\ nextId' = nextId + 1
    /\ edits' = edits + 1
    /\ lastOp' = [op |-> "handleAddSubStep", a |-> nextId, b |-> 0]
    /\ UNCHANGED <<view, appVars, domVars, subStepCanvasSize, localHistory,
                   localRedoHistory, connectingState, draggedSubStepId,
                   levels, layoutRuns, ganttVars>>

\* the sub-steps handleDeleteSubStep leaves
DeleteSubStepFrom(nodes, subStepId) ==
    LET kept == SelectSeq(nodes, LAMBDA ss : ss.id # subStepId)
    IN [i \in DOMAIN kept |->
           [kept[i] EXCEPT !.nextSubStepIds =
               SelectSeq(kept[i].nextSubStepIds, LAMBDA id : id # subStepId)]]

handleDeleteSubStep(subStepId) ==
    /\ view = "TaskDetailModal2"
    /\ EditRoom
    /\ subSteps' = DeleteSubStepFrom(subSteps, subStepId)
    /\ edits' = edits + 1
    /\ lastOp' = [op |-> "handleDeleteSubStep", a |-> subStepId, b |-> 0]
    /\ UNCHANGED <<view, appVars, domVars, subStepCanvasSize, localHistory,
                   localRedoHistory, connectingState, draggedSubStepId, nextId,
                   levels, layoutRuns, ganttVars>>

handleSubStepDragStart2(subStepId) ==
    /\ view = "TaskDetailModal2"
    /\ subStepId \in IdsOf(subSteps)
    /\ draggedSubStepId' = subStepId
    /\ lastOp' = [op |-> "handleSubStepDragStart", a |-> subStepId, b |-> 0]
    /\ UNCHANGED <<view, appVars, domVars, subSteps, subStepCanvasSize,
                   localHistory, localRedoHistory, connectingState, nextId,
                   edits, levels, layoutRuns, ganttVars>>

handleCanvasDrop(point) ==
    /\ view = "TaskDetailModal2"
    /\ lastOp' = [op |-> "handleCanvasDrop", a |-> draggedSubStepId, b |-> 0]
    /\ IF draggedSubStepId = 0
       THEN UNCHANGED <<subSteps, draggedSubStepId, edits>>
       ELSE /\ EditRoom
            /\ subSteps' = handleUpdateSubStep2(subSteps, draggedSubStepId,
                               [position |-> point])
            /\ draggedSubStepId' = 0
            /\ edits' = edits + 1
    /\ UNCHANGED <<view, appVars, domVars, subStepCanvasSize, localHistory,
                   localRedoHistory, connectingState, nextId,
                   levels, layoutRuns, ganttVars>>

handleStartConnection2(subStepId, fromPos) ==
    /\ view = "TaskDetailModal2"
    /\ subStepId \in IdsOf(subSteps)
    /\ connectingState' = [fromId |-> subStepId, fromPos |-> fromPos]
    /\ lastOp' = [op |-> "handleStartConnection", a |-> subStepId, b |-> 0]
    /\ UNCHANGED <<view, appVars, domVars, subSteps, subStepCanvasSize,
                   localHistory, localRedoHistory, draggedSubStepId, nextId,
                   edits, levels, layoutRuns, ganttVars>>

\* Array.from(new Set([...(sourceSubStep.nextSubStepIds || []), targetSubStepId]))
AddTarget2(list, targetSubStepId) == Dedupe(Append(list, targetSubStepId))

\* mouse-up on the card targetSubStepId; the event then bubbles to the canvas,
\* whose onMouseUp sets connectingState to null once more
handleEndConnection2(targetSubStepId) ==
    /\ view = "TaskDetailModal2"
    /\ targetSubStepId \in IdsOf(subSteps)
    /\ lastOp' = [op |-> "handleEndConnection", a |-> connectingState.fromId,
                  b |-> targetSubStepId]
    /\ IF connectingState = Idle \/ connectingState.fromId = targetSubStepId
       THEN UNCHANGED <<subSteps, edits>>
       ELSE IF connectingState.fromId \in IdsOf(subSteps)
       THEN LET sourceSubStep == CHOOSE ss \in Range(subSteps) :
                                     ss.id = connectingState.fromId
            IN /\ EditRoom
               /\ subSteps' = handleUpdateSubStep2(subSteps, sourceSubStep.id,
                      [nextSubStepIds |->
                          AddTarget2(sourceSubStep.nextSubStepIds, targetSubStepId)])
               /\ edits' = edits + 1
       ELSE UNCHANGED <<subSteps, edits>>
    /\ connectingState' = Idle
    /\ UNCHANGED <<view, appVars, domVars, subStepCanvasSize, localHistory,
                   localRedoHistory, draggedSubStepId, nextId,
                   levels, layoutRuns, ganttVars>>

\* mouse-up on the canvas outside every card: onMouseUp={() => setConnectingState(null)}
CanvasMouseUp2 ==
    /\ view = "TaskDetailModal2"
    /\ lastOp' = [op |-> "handleCanvasMouseUp", a |-> connectingState.fromId, b |-> 0]
    /\ connectingState' = Idle
    /\ UNCHANGED <<view, appVars, domVars, subSteps, subStepCanvasSize,
                   localHistory, localRedoHistory, draggedSubStepId, nextId,
                   edits, levels, layoutRuns, ganttVars>>

(***************************************************************************)
(* App: the task-level graph.  setTasksWithHistory records the current     *)
(* tasks and sets the new ones.                                            *)
(***************************************************************************)
setTasksWithHistory(newTasks) ==
    /\ recordHistory(tasks)
    /\ tasks' = newTasks

handleAddTaskFromModal ==
    /\ view = "App"
    /\ nextId <= MaxIds
    /\ LET newTask == [id |-> nextId, nextTaskIds |-> <<>>,
                       position |-> [x |-> 20, y |-> 20]]
       IN setTasksWithHistory(autoLayoutTasks(Append(tasks, newTask)))
    /\ nextId' = nextId + 1
    /\ lastOp' = [op |-> "handleAddTaskFromModal", a |-> nextId, b |-> 0]
    /\ UNCHANGED <<view, modalVars, domVars, edits, levels, layoutRuns, ganttVars>>

\* the tasks handleRemoveTask leaves, keeping the edges to the removed id
RemoveTaskFrom_KeepEdges(prevTasks, taskId) ==
    SelectSeq(prevTasks, LAMBDA t : t.id # taskId)

\* the tasks handleRemoveTask leaves
RemoveTaskFrom(prevTasks, taskId) ==
    LET kept == SelectSeq(prevTasks, LAMBDA t : t.id # taskId)
    IN [i \in DOMAIN kept |->
           [kept[i] EXCEPT !.nextTaskIds =
               SelectSeq(kept[i].nextTaskIds, LAMBDA id : id # taskId)]]

handleRemoveTask(taskId) ==
    /\ view = "App"
    /\ setTasksWithHistory(RemoveTaskFrom(tasks, taskId))
    /\ lastOp' = [op |-> "handleRemoveTask", a |-> taskId, b |-> 0]
    /\ UNCHANGED <<view, modalVars, domVars, nextId, edits, levels, layoutRuns,
                   ganttVars>>

handleUpdateTaskConnections(sourceTaskId, nextTaskIds) ==
    setTasksWithHistory([i \in DOMAIN tasks |->
        IF tasks[i].id = sourceTaskId
        THEN [tasks[i] EXCEPT !.nextTaskIds = nextTaskIds]
        ELSE tasks[i]])

\* ProjectFlowDisplay: a connection drag from sourceTaskId released on targetId
FlowEndConnection(sourceTaskId, targetId) ==
    /\ view = "App"
    /\ AppHistoryRoom
    /\ sourceTaskId \in IdsOf(tasks) /\ targetId \in IdsOf(tasks)
    /\ sourceTaskId # targetId
    /\ \E t \in Range(tasks) :
         /\ t.id = sourceTaskId
         /\ handleUpdateTaskConnections(sourceTaskId,
                Dedupe(Append(t.nextTaskIds, targetId)))
    /\ lastOp' = [op |-> "onUpdateTaskConnections", a |-> sourceTaskId, b |-> targetId]
    /\ UNCHANGED <<view, modalVars, domVars, nextId, edits, levels, layoutRuns,
                   ganttVars>>

\* the list ProjectFlowDisplay hands over when the connector
\* sourceTaskId -> targetId is deleted
ConnectionsWithout(sourceTaskId, targetId) ==
    IF sourceTaskId \in IdsOf(tasks)
    THEN LET t == CHOOSE t \in Range(tasks) : t.id = sourceTaskId
         IN SelectSeq(t.nextTaskIds, LAMBDA id : id # targetId)
    ELSE <<>>

\* ProjectFlowDisplay: the connector sourceTaskId -> targetId is deleted
FlowDeleteConnection(sourceTaskId, targetId) ==
    /\ view = "App"
    /\ AppHistoryRoom
    /\ handleUpdateTaskConnections(sourceTaskId,
           ConnectionsWithout(sourceTaskId, targetId))
    /\ lastOp' = [op |-> "onDeleteTaskConnection", a |-> sourceTaskId, b |-> targetId]
    /\ UNCHANGED <<view, modalVars, domVars, nextId, edits, levels, layoutRuns,
                   ganttVars>>

handleUpdateTaskPosition(taskId, position) ==
    /\ view = "App"
    /\ EditRoom
    /\ tasks' = [i \in DOMAIN tasks |->
                    IF tasks[i].id = taskId
                    THEN [tasks[i] EXCEPT !.position = position]
                    ELSE tasks[i]]
    /\ edits' = edits + 1
    /\ lastOp' = [op |-> "handleUpdateTaskPosition", a |-> taskId, b |-> 0]
    /\ UNCHANGED <<view, history, redoHistory, modalVars, domVars, nextId,
                   levels, layoutRuns, ganttVars>>

handleUndo ==
    /\ view = "App"
    /\ Len(history) > 0
    /\ LET previousState == history[Len(history)]
       IN /\ history' = SubSeq(history, 1, Len(history) - 1)
          /\ redoHistory' = <<tasks>> \o redoHistory
          /\ tasks' = previousState
    /\ lastOp' = [op |-> "handleUndo", a |-> 0, b |-> 0]
    /\ UNCHANGED <<view, modalVars, domVars, nextId, edits, levels, layoutRuns,
                   ganttVars>>

handleRedo ==
    /\ view = "App"
    /\ Len(redoHistory) > 0
    /\ LET nextState == redoHistory[1]
       IN /\ redoHistory' = Tail(redoHistory)
          /\ history' = Append(history, tasks)
          /\ tasks' = nextState
    /\ lastOp' = [op |-> "handleRedo", a |-> 0, b |-> 0]
    /\ UNCHANGED <<view, modalVars, domVars, nextId, edits, levels, layoutRuns,
                   ganttVars>>

(***************************************************************************)
(* The editors start on a project that has no edge to a missing node.      *)
(***************************************************************************)
\* edge entries of the starting graphs on the nodes 1 and 2
InitialEdges == { <<>>, << <<1, 2>> >>, << <<1, 2>>, <<2, 1>> >> }

InitialGraphs == {[n |-> 0, es |-> <<>>]} \cup {[n |-> 2, es |-> es] : es \in InitialEdges}

InitEditor ==
    /\ view \in {"App", "TaskDetailModal", "TaskDetailModal2"}
    /\ \E g \in InitialGraphs :
         /\ tasks = IF view = "App"
                    THEN autoLayoutTasks(
                           [i \in 1..g.n |-> [id |-> i, nextTaskIds |-> NextIds(g.es, i),
                                              position |-> NoPosition]])
                    ELSE <<>>
         /\ subSteps = IF view = "App" THEN <<>>
                       ELSE [i \in 1..g.n |->
                               [id |-> i, nextSubStepIds |-> NextIds(g.es, i),
                                position |-> getDefaultSubStepPosition(i - 1)]]
         /\ nextId = g.n + 1
    /\ cardHeights = IF view = "TaskDetailModal" THEN [i \in 1..MaxIds |-> 100] ELSE <<>>
    /\ canvasWidth = IF view = "TaskDetailModal" THEN 800 ELSE 0
    /\ history = <<>> /\ redoHistory = <<>>
    /\ subStepCanvasSize = DefaultCanvasSize
    /\ localHistory = <<>> /\ localRedoHistory = <<>>
    /\ connectingState = Idle /\ draggedSubStepId = 0
    /\ edits = 0
    /\ levels = <<>> /\ layoutRuns = 0
    /\ lastOp = NoOp
    /\ GanttIdle

\* the ids a caller may hand to a handler: the ids handed out and one that
\* never was
CallerIds == 1..(MaxIds + 1)

\* the editors' steps; the layout button is pressed once in a session
NextEditor ==
    \/ handleAddSubStep
    \/ \E id \in CallerIds : handleRemoveSubStep(id)
    \/ \E id \in 1..MaxIds : handleSubStepDragStart(id)
    \/ \E p \in DropPoints : handleSubStepDrop(p)
    \/ \E id \in 1..MaxIds, p \in PointerPoints : handleStartConnection(id, p)
    \/ \E id \in 1..MaxIds : handleEndConnection(id)
    \/ \E s, t \in CallerIds : handleDeleteConnection(s, t)
    \/ handleCanvasMouseUp
    \/ handleLocalUndo
    \/ handleLocalRedo
    \/ (HistoryRoom /\ layoutRuns = 0 /\ handleAutoLayoutSubSteps)
    \/ handleAddSubStep2
    \/ \E id \in CallerIds : handleDeleteSubStep(id)
    \/ \E id \in 1..MaxIds : handleSubStepDragStart2(id)
    \/ \E p \in DropPoints : handleCanvasDrop(p)
    \/ \E id \in 1..MaxIds, p \in PointerPoints : handleStartConnection2(id, p)
    \/ \E id \in 1..MaxIds : handleEndConnection2(id)
    \/ CanvasMouseUp2
    \/ (AppHistoryRoom /\ handleAddTaskFromModal)
    \/ \E id \in CallerIds : AppHistoryRoom /\ handleRemoveTask(id)
    \/ \E s, t \in 1..MaxIds : FlowEndConnection(s, t)
    \/ \E s, t \in CallerIds : FlowDeleteConnection(s, t)
    \/ \E id \in CallerIds, p \in DropPoints : handleUpdateTaskPosition(id, p)
    \/ (AppHistoryRoom /\ layoutRuns = 0 /\ OnAutoLayout)
    \/ handleUndo
    \/ handleRedo

SpecEditor == InitEditor /\ [][NextEditor]_vars

(***************************************************************************)
(* GanttChartView: the visible rows.  An item is [id, type, parentId,      *)
(* progress]; parentId 0 is null.  data is a prop: it stays as it is while *)
(* the view is open, and the effect on [data] has set expandedItems to the *)
(* ids of the tasks.                                                       *)
(***************************************************************************)
MaxItems == 4

\* what the item at index i of a list can be: a task, a sub-step of an earlier
\* task, an action item of an earlier sub-step
ItemShapes(i) ==
    {[id |-> i, type |-> "task", parentId |-> 0, progress |-> 0]}
    \cup {[id |-> i, type |-> "substep", parentId |-> p, progress |-> 0] : p \in 1..(i - 1)}
    \cup {[id |-> i, type |-> "actionitem", parentId |-> p, progress |-> g] :
              p \in 1..(i - 1), g \in {0, 100}}

WellFormed(d) ==
    \A i \in DOMAIN d :
        /\ d[i] \in ItemShapes(i)
        /\ d[i].type = "substep" => d[d[i].parentId].type = "task"
        /\ d[i].type = "actionitem" => d[d[i].parentId].type = "substep"

RECURSIVE GanttListsOf(_)
GanttListsOf(n) ==
    IF n = 0 THEN {<<>>}
    ELSE {d \in {Append(e, it) : e \in GanttListsOf(n - 1), it \in ItemShapes(n)} :
             WellFormed(d)}

GanttLists == UNION {GanttListsOf(n) : n \in 1..MaxItems}

\* the filter of visibleItems that lets every action item through
PassesFilter_All(item, filter) == TRUE

\* the filter callback of visibleItems, for an action item of the sub-step
PassesFilter(item, filter) ==
    IF filter = "all" THEN TRUE
    ELSE IF filter = "completed" THEN item.progress = 100
    ELSE IF filter = "pending" THEN item.progress # 100
    ELSE TRUE

VisibleOfSubStep(d, expanded, filter, subStep) ==
    <<subStep>> \o
    (IF subStep.id \in expanded
     THEN SelectSeq(d, LAMBDA item :
              /\ item.type = "actionitem"
              /\ item.parentId = subStep.id
              /\ PassesFilter(item, filter))
     ELSE <<>>)

VisibleOfTask(d, expanded, filter, task) ==
    <<task>> \o
    (IF task.id \in expanded
     THEN LET subs == SelectSeq(d, LAMBDA item :
                          item.type = "substep" /\ item.parentId = task.id)
          IN Flat([i \in DOMAIN subs |-> VisibleOfSubStep(d, expanded, filter, subs[i])])
     ELSE <<>>)

visibleItems(d, expanded, filter) ==
    LET ts == SelectSeq(d, LAMBDA item : item.type = "task")
    IN Flat([i \in DOMAIN ts |-> VisibleOfTask(d, expanded, filter, ts[i])])

hasChildren(itemId) == \E item \in Range(data) : item.parentId = itemId

\* toggleExpand's updater, never deleting
ToggledSet_Keep(prev, itemId) == prev \cup {itemId}

\* the updater of toggleExpand
ToggledSet(prev, itemId) ==
    IF itemId \in prev THEN prev \ {itemId} ELSE prev \cup {itemId}

InitGantt ==
    /\ view = "GanttChartView"
    /\ data \in GanttLists
    /\ expandedItems = {data[i].id : i \in {j \in DOMAIN data : data[j].type = "task"}}
    /\ actionFilter = "all"
    /\ TimeIdle
    /\ AppIdle /\ ModalIdle /\ DomIdle
    /\ nextId = 1 /\ edits = 0
    /\ levels = <<>> /\ layoutRuns = 0
    /\ lastOp = NoOp

\* click on the chevron of a visible task or sub-step row that has children
toggleExpand(itemId) ==
    /\ view = "GanttChartView"
    /\ \E item \in Range(visibleItems(data, expandedItems, actionFilter)) :
         /\ item.id = itemId
         /\ item.type \in {"task", "substep"}
    /\ hasChildren(itemId)
    /\ expandedItems' = ToggledSet(expandedItems, itemId)
    /\ lastOp' = [op |-> "toggleExpand", a |-> itemId, b |-> 0]
    /\ UNCHANGED <<view, appVars, modalVars, domVars, nextId, edits, levels,
                   layoutRuns, data, actionFilter, timeVars>>

\* setActionFilter that also clears the date-range override
setActionFilter_ClearRange(filter) ==
    /\ view = "GanttChartView"
    /\ actionFilter' = filter
    /\ dateRange' = NoRange
    /\ lastOp' = [op |-> "setActionFilter", a |-> 0, b |-> 0]
    /\ UNCHANGED <<view, appVars, modalVars, domVars, nextId, edits, levels,
                   layoutRuns, data, expandedItems, zoomLevel, showDependencies,
                   today>>

setActionFilter(filter) ==
    /\ view = "GanttChartView"
    /\ actionFilter' = filter
    /\ lastOp' = [op |-> "setActionFilter", a |-> 0, b |-> 0]
    /\ UNCHANGED <<view, appVars, modalVars, domVars, nextId, edits, levels,
                   layoutRuns, data, expandedItems, timeVars>>

NextGantt ==
    \/ \E itemId \in 1..MaxItems : toggleExpand(itemId)
    \/ \E filter \in {"all", "completed", "pending"} : setActionFilter(filter)

SpecGantt == InitGantt /\ [][NextGantt]_vars

(***************************************************************************)
(* GanttChartView: the time axis.  Dates are whole days counted from       *)
(* 1970-01-01 (the date strings are YYYY-MM-DD, parsed as midnight UTC),   *)
(* in a time zone without a clock change inside the shown range, where     *)
(* setDate moves a Date by whole days.  new Date() is taken at midnight.   *)
(***************************************************************************)
\* Date.UTC(y, m, d) in days: the day number of a civil date (m from 1; a day
\* or month past the end of its month or year rolls over, as in Date)
DaysFromCivil(y, m, d) ==
    LET yy == y + ((m - 1) \div 12)
        mm == ((m - 1) % 12) + 1
        yr == IF mm <= 2 THEN yy - 1 ELSE yy
        era == yr \div 400
        yoe == yr - era * 400
        mp == IF mm > 2 THEN mm - 3 ELSE mm + 9
        doy == (153 * mp + 2) \div 5
        doe == yoe * 365 + (yoe \div 4) - (yoe \div 100) + doy
    IN era * 146097 + doe - 719468 + (d - 1)

\* getFullYear / getMonth (from 1) / getDate of a day number
CivilFromDays(z) ==
    LET zz == z + 719468
        era == zz \div 146097
        doe == zz - era * 146097
        yoe == (doe - (doe \div 1460) + (doe \div 36524) - (doe \div 146096)) \div 365
        doy == doe - (365 * yoe + (yoe \div 4) - (yoe \div 100))
        mp == (5 * doy + 2) \div 153
        dd == doy - ((153 * mp + 2) \div 5) + 1
        mm == IF mp < 10 THEN mp + 3 ELSE mp - 9
    IN [year |-> yoe + era * 400 + (IF mm <= 2 THEN 1 ELSE 0), month |-> mm, date |-> dd]

\* getDay(): 0 is Sunday; 1970-01-01 was a Thursday
GetDay(z) == (z + 4) % 7

\* getWeekNumber(d): the day is moved to the Thursday of its week
\* (d + 4 - (getUTCDay() || 7)) and the days from the first of January of
\* that Thursday's year are counted in sevens, rounded up
getWeekNumber(z) ==
    LET thursday == z + 4 - (IF GetDay(z) = 0 THEN 7 ELSE GetDay(z))
        yearStart == DaysFromCivil(CivilFromDays(thursday).year, 1, 1)
    IN ((thursday - yearStart) + 1 + 6) \div 7

\* projectMaxDate.setMonth(projectMaxDate.getMonth() + 1)
AddMonth(z) ==
    LET c == CivilFromDays(z) IN DaysFromCivil(c.year, c.month + 1, c.date)

dayWidths == [day |-> 40, week |-> 15, month |-> 5]

ROW_HEIGHT == 40

ValidDates(dates) == SelectSeq(dates, LAMBDA d : d # NaD)

MinOf(S) == CHOOSE m \in S : \A n \in S : m <= n

\* a timeline that starts on the first day of the view, without the two
\* days before it
TimelineOf_NoLead(d, range, now) ==
    IF Len(d) = 0 THEN [timelineStart |-> now, totalDays |-> 30]
    ELSE
    LET startDates == ValidDates([i \in DOMAIN d |-> d[i].start])
        endDates == ValidDates([i \in DOMAIN d |-> d[i].end])
        noDates == startDates = <<>> \/ endDates = <<>>
        projectMinDate == IF noDates THEN now ELSE MinOf(Range(startDates))
        projectMaxDate == IF noDates THEN AddMonth(now) ELSE MaxOf(Range(endDates))
        viewStartDate == IF range.start # NaD THEN range.start ELSE projectMinDate
        viewEndDate == IF range.end # NaD THEN range.end ELSE projectMaxDate
    IN IF viewEndDate < viewStartDate
       THEN [timelineStart |-> viewStartDate + 5, totalDays |-> 0]
       ELSE [timelineStart |-> viewStartDate,
             totalDays |-> (viewEndDate + 5) - viewStartDate]

\* timelineStart and totalDays.  When the view would end before it starts,
\* viewEndDate = viewStartDate makes the two names one Date object, which the
\* two setDate calls then move by -2 and by +5.
TimelineOf(d, range, now) ==
    IF Len(d) = 0 THEN [timelineStart |-> now, totalDays |-> 30]
    ELSE
    LET startDates == ValidDates([i \in DOMAIN d |-> d[i].start])
        endDates == ValidDates([i \in DOMAIN d |-> d[i].end])
        noDates == startDates = <<>> \/ endDates = <<>>
        projectMinDate == IF noDates THEN now ELSE MinOf(Range(startDates))
        projectMaxDate == IF noDates THEN AddMonth(now) ELSE MaxOf(Range(endDates))
        viewStartDate == IF range.start # NaD THEN range.start ELSE projectMinDate
        viewEndDate == IF range.end # NaD THEN range.end ELSE projectMaxDate
    IN IF viewEndDate < viewStartDate
       THEN [timelineStart |-> viewStartDate - 2 + 5, totalDays |-> 0]
       ELSE [timelineStart |-> viewStartDate - 2,
             totalDays |-> (viewEndDate + 5) - (viewStartDate - 2)]

getDaysFromStart(date, timelineStart) ==
    IF date = NaD THEN -1 ELSE date - timelineStart

\* the bar of a row without the least duration of a fifth of a day
BarOf_NoFloor(item, timelineStart, dayWidth) ==
    LET startDays == getDaysFromStart(item.start, timelineStart)
        span == getDaysFromStart(item.end, timelineStart) - startDays + 1
    IN [rendered |-> startDays >= 0,
        left |-> startDays * dayWidth,
        width |-> span * dayWidth]

\* the bar of a row: rendered iff startDays >= 0; left = startDays * dayWidth,
\* width = max(0.2, endDays - startDays + 1) * dayWidth
BarOf(item, timelineStart, dayWidth) ==
    LET startDays == getDaysFromStart(item.start, timelineStart)
        span == getDaysFromStart(item.end, timelineStart) - startDays + 1
    IN [rendered |-> startDays >= 0,
        left |-> startDays * dayWidth,
        width |-> IF span >= 1 THEN span * dayWidth ELSE dayWidth \div 5]

\* itemIndexMap.get(depId): the index (from 0) of the last row with that id,
\* -1 when there is none
ItemIndex(items, depId) ==
    LET at == {i \in DOMAIN items : items[i].id = depId}
    IN IF at = {} THEN -1 ELSE MaxOf(at) - 1

\* the line from the row of depId to the row at index (from 0), if one is drawn
LineOf(items, index, depId, timelineStart, dayWidth) ==
    LET item == items[index + 1]
        fromIndex == ItemIndex(items, depId)
    IN IF fromIndex = -1 THEN <<>>
       ELSE LET fromItem == items[fromIndex + 1]
                fromEndDays == getDaysFromStart(fromItem.end, timelineStart)
                toStartDays == getDaysFromStart(item.start, timelineStart)
            IN IF fromEndDays < 0 \/ toStartDays < 0 THEN <<>>
               ELSE << [from |-> depId, to |-> item.id,
                        fromX |-> (fromEndDays + 1) * dayWidth,
                        fromY |-> fromIndex * ROW_HEIGHT + ROW_HEIGHT \div 2,
                        toX |-> toStartDays * dayWidth,
                        toY |-> index * ROW_HEIGHT + ROW_HEIGHT \div 2] >>

\* DependencyLines: lines
DependencyLines(items, timelineStart, dayWidth) ==
    Flat([i \in DOMAIN items |->
            Flat([k \in DOMAIN items[i].dependencies |->
                    LineOf(items, i - 1, items[i].dependencies[k],
                           timelineStart, dayWidth)])])

\* a pushed header whose width already counts the day that opened it
PushHeader_Counted(headers, currentDate, zoom, dayWidth) ==
    Append(headers, [first |-> currentDate, width |-> dayWidth])

\* headers.push({label, secondaryLabel, width}): the label is kept as the day
\* it is formatted from
PushHeader(headers, currentDate, zoom, dayWidth) ==
    Append(headers, [first |-> currentDate,
                     width |-> IF zoom = "day" THEN dayWidth ELSE 0])

\* OpensHeader with weeks that start on Sunday
OpensHeader_Sunday(headers, currentDate, zoom, currentMonth) ==
    CASE zoom = "day" -> TRUE
      [] zoom = "week" -> GetDay(currentDate) = 0 \/ Len(headers) = 0
      [] zoom = "month" -> CivilFromDays(currentDate).month - 1 # currentMonth

\* whether the loop body pushes a header for currentDate
OpensHeader(headers, currentDate, zoom, currentMonth) ==
    CASE zoom = "day" -> TRUE
      [] zoom = "week" -> GetDay(currentDate) = 1 \/ Len(headers) = 0
      [] zoom = "month" -> CivilFromDays(currentDate).month - 1 # currentMonth

\* one pass through the body of the for loop, for day i of the timeline
HeaderStep(st, i, timelineStart, zoom, dayWidth) ==
    LET currentDate == timelineStart + i
        opens == OpensHeader(st.headers, currentDate, zoom, st.currentMonth)
        pushed == IF opens THEN PushHeader(st.headers, currentDate, zoom, dayWidth)
                  ELSE st.headers
    IN [headers |-> IF zoom = "day" THEN pushed
                    ELSE [pushed EXCEPT ![Len(pushed)].width = @ + dayWidth],
        currentMonth |-> IF zoom = "month" THEN CivilFromDays(currentDate).month - 1
                         ELSE st.currentMonth]

\* the passes lo .. hi - 1 of the for loop, in order (evaluated by halves)
RECURSIVE HeaderLoop(_, _, _, _, _, _)
HeaderLoop(st, lo, hi, timelineStart, zoom, dayWidth) ==
    IF lo >= hi THEN st
    ELSE IF hi = lo + 1 THEN HeaderStep(st, lo, timelineStart, zoom, dayWidth)
    ELSE LET half == HeaderLoop(st, lo, (lo + hi) \div 2, timelineStart, zoom, dayWidth)
         IN \* the first half is evaluated before the second is entered
            IF Len(half.headers) > 0
            THEN HeaderLoop(half, (lo + hi) \div 2, hi, timelineStart, zoom, dayWidth)
            ELSE half

timelineHeaders(timelineStart, totalDays, zoom, dayWidth) ==
    HeaderLoop([headers |-> <<>>, currentMonth |-> -1], 0, totalDays,
               timelineStart, zoom, dayWidth).headers

\* headers.slice(lo - 1, hi).reduce((sum, h) => sum + h.width, 0), by halves
RECURSIVE SumWidths(_, _, _)
SumWidths(headers, lo, hi) ==
    IF lo > hi THEN 0
    ELSE IF lo = hi THEN headers[lo].width
    ELSE SumWidths(headers, lo, (lo + hi) \div 2)
         + SumWidths(headers, (lo + hi) \div 2 + 1, hi)

totalTimelineWidth(headers) == SumWidths(headers, 1, Len(headers))

\* the lines on screen
RenderedLines ==
    IF showDependencies
    THEN DependencyLines(visibleItems(data, expandedItems, actionFilter),
                         TimelineOf(data, dateRange, today).timelineStart,
                         dayWidths[zoomLevel])
    ELSE <<>>

(***************************************************************************)
(* The timeline on item lists with dates and dependencies.  The lists:     *)
(*  - a hierarchy of three rows with one dependency, where the             *)
(*    start and end of the referenced row and the start of the dependent   *)
(*    row are any of NaD, D0 .. D0 + MaxSpan, and every other date is      *)
(*    D0 + MaxSpan;                                                        *)
(*  - the two-task scenario of 2024-01-01 .. 2024-01-05;                   *)
(*  - one task of 1, 30 or 365 days starting on any of the days            *)
(*    D0 .. D0 + MaxStartShift (all week days; the longer ranges cross     *)
(*    the ends of the months of a leap year).                              *)
(***************************************************************************)
MaxSpan == 1
MaxStartShift == 30

D0 == DaysFromCivil(2024, 1, 1)

GanttItem(id, type, parentId, progress, start, end, dependencies) ==
    [id |-> id, type |-> type, parentId |-> parentId, progress |-> progress,
     start |-> start, end |-> end, dependencies |-> dependencies]

\* the rows without dates: a task, its sub-step and a completed action item
\* of it; two tasks and a sub-step of the second
Hierarchies ==
    { << [type |-> "task", parentId |-> 0, progress |-> 0],
         [type |-> "substep", parentId |-> 1, progress |-> 0],
         [type |-> "actionitem", parentId |-> 2, progress |-> 100] >>,
      << [type |-> "task", parentId |-> 0, progress |-> 0],
         [type |-> "task", parentId |-> 0, progress |-> 0],
         [type |-> "substep", parentId |-> 2, progress |-> 0] >> }

DayChoices == {NaD} \cup {D0 + k : k \in 0..MaxSpan}

\* the list over hierarchy h in which row dep depends on ref (0: an unknown id)
DependencyList(h, dep, ref, refStart, refEnd, depStart) ==
    [i \in DOMAIN h |->
        GanttItem(i, h[i].type, h[i].parentId, h[i].progress,
                  IF i = ref THEN refStart ELSE IF i = dep THEN depStart
                  ELSE D0 + MaxSpan,
                  IF i = ref THEN refEnd ELSE D0 + MaxSpan,
                  IF i = dep THEN <<ref>> ELSE <<>>)]

DependencyLists ==
    {DependencyList(h, dep, ref, rs, re, ds) :
        h \in Hierarchies, dep \in 1..3, ref \in 0..3,
        rs \in DayChoices, re \in DayChoices, ds \in DayChoices}

\* T1(2024-01-01 .. 2024-01-03), T2(2024-01-04 .. 2024-01-05) depending on T1
ScenarioT1T2 ==
    << GanttItem(1, "task", 0, 0, DaysFromCivil(2024, 1, 1), DaysFromCivil(2024, 1, 3), <<>>),
       GanttItem(2, "task", 0, 0, DaysFromCivil(2024, 1, 4), DaysFromCivil(2024, 1, 5), <<1>>) >>

RangeLengths == {1, 30, 365}

RangeLists ==
    { << GanttItem(1, "task", 0, 0, D0 + k, D0 + k + len - 1, <<>>) >> :
          k \in 0..MaxStartShift, len \in RangeLengths }

TimelineLists ==
    {d \in DependencyLists :
        \A i \in DOMAIN d : \A r \in Range(d[i].dependencies) :
            r # i /\ r <= Len(d)}
    \cup {ScenarioT1T2} \cup RangeLists

InitTimeline ==
    /\ view = "GanttChartView"
    /\ data \in TimelineLists
    /\ expandedItems = {data[i].id : i \in {j \in DOMAIN data : data[j].type = "task"}}
    /\ actionFilter = "all"
    /\ zoomLevel = "day"
    /\ dateRange = NoRange
    /\ showDependencies = TRUE
    /\ today = D0 + 30
    /\ AppIdle /\ ModalIdle /\ DomIdle
    /\ nextId = 1 /\ edits = 0
    /\ levels = <<>> /\ layoutRuns = 0
    /\ lastOp = NoOp

setZoomLevel(level) ==
    /\ view = "GanttChartView"
    /\ zoomLevel' = level
    /\ lastOp' = [op |-> "setZoomLevel", a |-> 0, b |-> 0]
    /\ UNCHANGED <<view, appVars, modalVars, domVars, nextId, edits, levels,
                   layoutRuns, data, expandedItems, actionFilter, dateRange,
                   showDependencies, today>>

\* the two date inputs and the reset button
setDateRangeStart(value) ==
    /\ view = "GanttChartView"
    /\ dateRange' = [dateRange EXCEPT !.start = value]
    /\ lastOp' = [op |-> "setDateRange", a |-> 0, b |-> 0]
    /\ UNCHANGED <<view, appVars, modalVars, domVars, nextId, edits, levels,
                   layoutRuns, data, expandedItems, actionFilter, zoomLevel,
                   showDependencies, today>>

setDateRangeEnd(value) ==
    /\ view = "GanttChartView"
    /\ dateRange' = [dateRange EXCEPT !.end = value]
    /\ lastOp' = [op |-> "setDateRange", a |-> 0, b |-> 0]
    /\ UNCHANGED <<view, appVars, modalVars, domVars, nextId, edits, levels,
                   layoutRuns, data, expandedItems, actionFilter, zoomLevel,
                   showDependencies, today>>

resetDateRange ==
    /\ view = "GanttChartView"
    /\ dateRange' = NoRange
    /\ lastOp' = [op |-> "setDateRange", a |-> 0, b |-> 0]
    /\ UNCHANGED <<view, appVars, modalVars, domVars, nextId, edits, levels,
                   layoutRuns, data, expandedItems, actionFilter, zoomLevel,
                   showDependencies, today>>

setShowDependencies ==
    /\ view = "GanttChartView"
    /\ showDependencies' = ~showDependencies
    /\ lastOp' = [op |-> "setShowDependencies", a |-> 0, b |-> 0]
    /\ UNCHANGED <<view, appVars, modalVars, domVars, nextId, edits, levels,
                   layoutRuns, data, expandedItems, actionFilter, zoomLevel,
                   dateRange, today>>

\* the dates typed into the two inputs
RangeStartChoices == {D0 + 3}
RangeEndChoices == {D0}

NextTimeline ==
    \/ \E itemId \in 1..3 : toggleExpand(itemId)
    \/ \E filter \in {"all", "completed", "pending"} : setActionFilter(filter)
    \/ \E level \in {"day", "week", "month"} : setZoomLevel(level)
    \/ \E value \in RangeStartChoices : setDateRangeStart(value)
    \/ \E value \in RangeEndChoices : setDateRangeEnd(value)
    \/ resetDateRange
    \/ setShowDependencies

SpecTimeline == InitTimeline /\ [][NextTimeline]_vars

(***************************************************************************)
(* The graph of the mounted component, as the claims speak of it.          *)
(***************************************************************************)
Nodes == IF view = "App" THEN tasks ELSE subSteps

OutList(node) == IF view = "App" THEN node.nextTaskIds ELSE node.nextSubStepIds

NodeOf(id) == CHOOSE n \in Range(Nodes) : n.id = id

\* the edges between nodes of the list
EdgeSet ==
    {e \in IdsOf(Nodes) \X IdsOf(Nodes) : e[2] \in Range(OutList(NodeOf(e[1])))}

RECURSIVE ReachableVia(_, _)
ReachableVia(E, S) ==
    LET more == S \cup {e[2] : e \in {d \in E : d[1] \in S}}
    IN IF more = S THEN S ELSE ReachableVia(E, more)

\* no node is reachable from one of its successors
Acyclic ==
    LET E == EdgeSet
    IN \A u \in IdsOf(Nodes) : u \notin ReachableVia(E, {e[2] : e \in {d \in E : d[1] = u}})

\* length of the longest path that ends in v (of an acyclic graph)
RECURSIVE LongestPathVia(_, _)
LongestPathVia(E, v) ==
    LET preds == {e[1] : e \in {d \in E : d[2] = v}}
    IN IF preds = {} THEN 0
       ELSE 1 + MaxOf({LongestPathVia(E, u) : u \in preds})

\* the columns that hold the id, counted from 0
ColumnsOf(id) == {k - 1 : k \in {j \in DOMAIN levels : id \in Range(levels[j])}}

ColumnOf(id) == CHOOSE c \in ColumnsOf(id) : TRUE

\* the column a task's x stands for
XColumn(task) == (task.position.x - 20) \div (CARD_WIDTH + HORIZONTAL_SPACING)

HasDanglingEntry == \E n \in Range(Nodes) : \E t \in Range(OutList(n)) : t \notin IdsOf(Nodes)

(***************************************************************************)
(* C1: after auto-layout of an acyclic graph (tasks or sub-steps) the      *)
(* column of every node is strictly greater than the column of each of     *)
(* its predecessors.                                                       *)
(***************************************************************************)
ThmC1_ColumnsFollowPredecessors ==
    (layoutRuns >= 1 /\ Acyclic) =>
        \A e \in EdgeSet :
            /\ ColumnsOf(e[1]) # {} /\ ColumnsOf(e[2]) # {}
            /\ ColumnOf(e[2]) > ColumnOf(e[1])
            /\ view = "App" => XColumn(NodeOf(e[2])) > XColumn(NodeOf(e[1]))

WitC1_AcyclicChainLaidOut ==
    /\ layoutRuns >= 1
    /\ Acyclic
    /\ view = "TaskDetailModal"
    /\ \E a, b, c \in IdsOf(Nodes) : <<a, b>> \in EdgeSet /\ <<b, c>> \in EdgeSet

(***************************************************************************)
(* C2: for every graph with unique ids, cyclic or not, with or without     *)
(* entries that name no node, auto-layout ends and every node is in        *)
(* exactly one column and has a position.                                  *)
(***************************************************************************)
ThmC2_EveryNodePlacedOnce ==
    layoutRuns >= 1 =>
        /\ \A id \in IdsOf(Nodes) :
              /\ Cardinality(ColumnsOf(id)) = 1
              /\ Count(Flat(levels), id) = 1
              /\ NodeOf(id).position # NoPosition
              /\ view = "App" => XColumn(NodeOf(id)) = ColumnOf(id)
        /\ Range(Flat(levels)) \subseteq IdsOf(Nodes)

WitC2_CyclicDanglingLaidOut ==
    /\ layoutRuns >= 1
    /\ ~Acyclic
    /\ HasDanglingEntry
    /\ Len(Nodes) >= 2
    /\ view = "App"

(***************************************************************************)
(* C3: a second auto-layout run on the result of a first run (graph,       *)
(* sizes and canvas width unchanged) leaves every position as it is.       *)
(***************************************************************************)
ThmC3_SecondRunKeepsPositions ==
    [][(layoutRuns >= 1 /\ layoutRuns' = layoutRuns + 1) =>
           (tasks' = tasks /\ subSteps' = subSteps)]_vars

WitC3_TwoRuns ==
    /\ layoutRuns = 2
    /\ view = "App"
    /\ Len(Nodes) >= 2
    /\ EdgeSet # {}

(***************************************************************************)
(* C4: nodes A, B, C with edges A->B, A->C, B->C are placed in columns 0,  *)
(* 1 and 2; for every acyclic graph the column of a node is the length of  *)
(* the longest path that ends in it.                                       *)
(***************************************************************************)
ScenarioABC ==
    /\ Len(Nodes) = 3
    /\ OutList(NodeOf(1)) = <<2, 3>>
    /\ OutList(NodeOf(2)) = <<3>>
    /\ OutList(NodeOf(3)) = <<>>

ThmC4_ColumnIsLongestPath ==
    /\ (layoutRuns >= 1 /\ Acyclic) =>
           LET E == EdgeSet
           IN \A id \in IdsOf(Nodes) :
                  ColumnsOf(id) # {} /\ ColumnOf(id) = LongestPathVia(E, id)
    /\ (layoutRuns >= 1 /\ ScenarioABC) =>
           ColumnOf(1) = 0 /\ ColumnOf(2) = 1 /\ ColumnOf(3) = 2

WitC4_ScenarioLaidOut == layoutRuns >= 1 /\ ScenarioABC

(***************************************************************************)
(* C5: in the sub-step connection editors a drag from A released on A      *)
(* adds no edge; released on another node B it leaves exactly one entry B  *)
(* in A's outgoing list, so repeating the drag adds no duplicate; either   *)
(* way the editor is Idle afterwards.                                      *)
(***************************************************************************)
NoDuplicates(list) == \A t \in Range(list) : Count(list, t) = 1

ThmC5_ReleaseAddsOneEdge ==
    [][\A A, B \in 1..MaxIds :
          lastOp' = [op |-> "handleEndConnection", a |-> A, b |-> B] =>
              /\ connectingState' = Idle
              /\ A = B => /\ subSteps' = subSteps
                          /\ localHistory' = localHistory
              /\ (A # B /\ A \in IdsOf(subSteps)) =>
                    /\ IdSeq(subSteps') = IdSeq(subSteps)
                    /\ \A i \in DOMAIN subSteps :
                          IF subSteps[i].id = A
                          THEN /\ Count(subSteps'[i].nextSubStepIds, B) = 1
                               /\ NoDuplicates(subSteps'[i].nextSubStepIds)
                               /\ Range(subSteps'[i].nextSubStepIds) =
                                      Range(subSteps[i].nextSubStepIds) \cup {B}
                          ELSE subSteps'[i] = subSteps[i]]_vars

\* the drag 1 -> 2 has just been repeated on a graph that already had the edge
WitC5_RepeatedDrag ==
    /\ view = "TaskDetailModal"
    /\ lastOp = [op |-> "handleEndConnection", a |-> 1, b |-> 2]
    /\ connectingState = Idle
    /\ Len(localHistory) >= 1
    /\ \E ss \in Range(localHistory[Len(localHistory)].subSteps) :
          ss.id = 1 /\ 2 \in Range(ss.nextSubStepIds)
    /\ \E ss \in Range(subSteps) : ss.id = 1 /\ ss.nextSubStepIds = <<2>>

(***************************************************************************)
(* C6: from a graph without dangling targets, no sequence of add, remove,  *)
(* connect, delete-connection, reposition, auto-layout, undo and redo      *)
(* leaves an outgoing list with the id of a node that is not in the graph; *)
(* a removed node is in no outgoing list.                                  *)
(***************************************************************************)
ThmC6_NoDanglingTarget ==
    /\ ~HasDanglingEntry
    /\ lastOp.op \in {"handleRemoveTask", "handleRemoveSubStep", "handleDeleteSubStep"} =>
          /\ lastOp.a \notin IdsOf(Nodes)
          /\ \A n \in Range(Nodes) : lastOp.a \notin Range(OutList(n))

\* task 2, the target of the edge 1 -> 2, has just been removed
WitC6_TargetRemoved ==
    /\ view = "App"
    /\ lastOp = [op |-> "handleRemoveTask", a |-> 2, b |-> 0]
    /\ Len(history) >= 1
    /\ \E t \in Range(history[Len(history)]) : t.id = 1 /\ 2 \in Range(t.nextTaskIds)
    /\ IdsOf(tasks) = {1}

(***************************************************************************)
(* C7: a node drag and a connection drag are never pending together.       *)
(***************************************************************************)
CexC7_NeverBothPending == ~(draggedSubStepId # 0 /\ connectingState # Idle)

(***************************************************************************)
(* C8: a connection drag released on the empty canvas leaves the editor    *)
(* Idle and the sub-steps, the canvas size and the histories as they were. *)
(***************************************************************************)
ThmC8_CanvasReleaseCancels ==
    [][(lastOp'.op = "handleCanvasMouseUp" /\ connectingState # Idle) =>
          /\ connectingState' = Idle
          /\ subSteps' = subSteps
          /\ subStepCanvasSize' = subStepCanvasSize
          /\ localHistory' = localHistory
          /\ localRedoHistory' = localRedoHistory]_vars

\* a drag from sub-step 1 has just been released on the canvas of a graph with an edge
WitC8_DragCancelled ==
    /\ view = "TaskDetailModal"
    /\ lastOp = [op |-> "handleCanvasMouseUp", a |-> 1, b |-> 0]
    /\ connectingState = Idle
    /\ EdgeSet # {}

(***************************************************************************)
(* C9 (as amended): every task row is visible; a sub-step row is visible   *)
(* iff its parent task is expanded; an action-item row is visible iff its  *)
(* parent sub-step is expanded, that sub-step's parent task is expanded,   *)
(* and the item passes the active filter.                                  *)
(***************************************************************************)
FilterAdmits(item) ==
    \/ actionFilter = "all"
    \/ actionFilter = "completed" /\ item.progress = 100
    \/ actionFilter = "pending" /\ item.progress # 100

VisibleRows == Range(visibleItems(data, expandedItems, actionFilter))

ThmC9_VisibleRows ==
    \A item \in Range(data) :
        /\ item.type = "task" => item \in VisibleRows
        /\ item.type = "substep" =>
              (item \in VisibleRows <=> item.parentId \in expandedItems)
        /\ item.type = "actionitem" =>
              (item \in VisibleRows <=>
                  /\ item.parentId \in expandedItems
                  /\ data[item.parentId].parentId \in expandedItems
                  /\ FilterAdmits(item))

\* a collapsed task whose sub-step is still expanded and has an item the filter admits
WitC9_CollapsedAboveExpanded ==
    /\ view = "GanttChartView"
    /\ actionFilter = "pending"
    /\ \E item \in Range(data) :
          /\ item.type = "actionitem"
          /\ FilterAdmits(item)
          /\ item.parentId \in expandedItems
          /\ data[item.parentId].parentId \notin expandedItems
          /\ item \notin VisibleRows

\* C9 as stated: an action-item row is visible iff its parent sub-step is
\* expanded and it passes the filter
CexC9_ParentSubStepSuffices ==
    \A item \in Range(data) :
        item.type = "actionitem" =>
            (item \in VisibleRows <=>
                (item.parentId \in expandedItems /\ FilterAdmits(item)))

(***************************************************************************)
(* C10: collapsing a task takes all its sub-steps and their action items   *)
(* out of the visible rows, whatever their own expanded state, and leaves  *)
(* data and the rest of the expanded set as they were.                     *)
(***************************************************************************)
DescendantOf(item, taskId) ==
    \/ item.type = "substep" /\ item.parentId = taskId
    \/ item.type = "actionitem" /\ data[item.parentId].parentId = taskId

ThmC10_CollapseHidesDescendants ==
    [][\A t \in 1..MaxItems :
          (/\ lastOp' = [op |-> "toggleExpand", a |-> t, b |-> 0]
           /\ t \in expandedItems
           /\ data[t].type = "task") =>
              /\ data' = data
              /\ expandedItems' = expandedItems \ {t}
              /\ \A item \in Range(data) :
                    DescendantOf(item, t) =>
                        item \notin Range(visibleItems(data', expandedItems', actionFilter'))]_vars

\* task 1 has just been collapsed above an expanded sub-step that has an action item
WitC10_CollapsedWithExpandedSubStep ==
    /\ view = "GanttChartView"
    /\ lastOp = [op |-> "toggleExpand", a |-> 1, b |-> 0]
    /\ 1 \notin expandedItems
    /\ \E item \in Range(data) :
          /\ item.type = "actionitem"
          /\ item.parentId \in expandedItems
          /\ data[item.parentId].parentId = 1

(***************************************************************************)
(* The project in App: the ways a task list comes into being (template,    *)
(* generated plan, imported file, stored project, add-task modal) and the  *)
(* edits of the flow view.                                                 *)
(***************************************************************************)
\* tasks as a template, a generated plan or a hand-written file holds them:
\* without a position
UnplacedTasks(g) ==
    [i \in 1..g.n |-> [id |-> i, nextTaskIds |-> NextIds(g.es, i),
                       position |-> NoPosition]]

\* get...TemplateTasks(): chains of tasks
TemplateTasks == {UnplacedTasks([n |-> 2, es |-> << <<1, 2>> >>])}

\* generateProjectPlan(goal, date)
GeneratedPlans == {UnplacedTasks(g) : g \in InitialGraphs \ {[n |-> 0, es |-> <<>>]}}

\* content.tasks of a project file, project.tasks of a stored project: written
\* by this program from its task list, or by anything else
StoredTaskLists ==
    GeneratedPlans \cup {autoLayoutTasks(plan) : plan \in GeneratedPlans}

handleLoadTemplate(templateTasks) ==
    /\ view = "App"
    /\ tasks' = autoLayoutTasks(templateTasks)
    /\ history' = <<>>
    /\ redoHistory' = <<>>
    /\ nextId' = Len(templateTasks) + 1
    /\ lastOp' = [op |-> "handleLoadTemplate", a |-> 0, b |-> 0]
    /\ UNCHANGED <<view, modalVars, domVars, edits, levels, layoutRuns, ganttVars>>

handleSubmit(initialTasks) ==
    /\ view = "App"
    /\ tasks' = autoLayoutTasks(initialTasks)
    /\ history' = <<>>
    /\ redoHistory' = <<>>
    /\ nextId' = Len(initialTasks) + 1
    /\ lastOp' = [op |-> "handleSubmit", a |-> 0, b |-> 0]
    /\ UNCHANGED <<view, modalVars, domVars, edits, levels, layoutRuns, ganttVars>>

handleImportProject(contentTasks) ==
    /\ view = "App"
    /\ tasks' = contentTasks
    /\ history' = <<>>
    /\ redoHistory' = <<>>
    /\ nextId' = Len(contentTasks) + 1
    /\ lastOp' = [op |-> "handleImportProject", a |-> 0, b |-> 0]
    /\ UNCHANGED <<view, modalVars, domVars, edits, levels, layoutRuns, ganttVars>>

handleSelectProject(projectTasks) ==
    /\ view = "App"
    /\ tasks' = projectTasks
    /\ history' = <<>>
    /\ redoHistory' = <<>>
    /\ nextId' = Len(projectTasks) + 1
    /\ lastOp' = [op |-> "handleSelectProject", a |-> 0, b |-> 0]
    /\ UNCHANGED <<view, modalVars, domVars, edits, levels, layoutRuns, ganttVars>>

InitProject ==
    /\ view = "App"
    /\ AppIdle /\ ModalIdle /\ DomIdle /\ GanttIdle
    /\ nextId = 1 /\ edits = 0
    /\ levels = <<>> /\ layoutRuns = 0
    /\ lastOp = NoOp

NextProject ==
    \/ \E templateTasks \in TemplateTasks : handleLoadTemplate(templateTasks)
    \/ \E initialTasks \in GeneratedPlans : handleSubmit(initialTasks)
    \/ \E contentTasks \in StoredTaskLists : handleImportProject(contentTasks)
    \/ \E projectTasks \in StoredTaskLists : handleSelectProject(projectTasks)
    \/ (AppHistoryRoom /\ handleAddTaskFromModal)
    \/ \E id \in 1..MaxIds : AppHistoryRoom /\ handleRemoveTask(id)
    \/ \E s, t \in 1..MaxIds : FlowEndConnection(s, t)
    \/ \E s, t \in 1..MaxIds : FlowDeleteConnection(s, t)
    \/ (AppHistoryRoom /\ OnAutoLayout)
    \/ handleUndo
    \/ handleRedo

SpecProject == InitProject /\ [][NextProject]_vars

(***************************************************************************)
(* App: the undo history at its full length.  On an empty board a task is  *)
(* added and removed and the board is laid out, each through               *)
(* setTasksWithHistory, and the steps are undone and redone.  Nothing but  *)
(* recordHistory limits the history.                                       *)
(***************************************************************************)
InitHistory ==
    /\ view = "App"
    /\ AppIdle /\ ModalIdle /\ DomIdle /\ GanttIdle
    /\ nextId = MaxIds /\ edits = 0
    /\ levels = <<>> /\ layoutRuns = 0
    /\ lastOp = NoOp

NextHistory ==
    \/ handleAddTaskFromModal
    \/ \E id \in 1..MaxIds : handleRemoveTask(id)
    \/ OnAutoLayout
    \/ handleUndo
    \/ handleRedo

SpecHistory == InitHistory /\ [][NextHistory]_vars

(***************************************************************************)
(* The timeline as drawn in the current state.                             *)
(***************************************************************************)
VisibleNow == visibleItems(data, expandedItems, actionFilter)

TimelineNow == TimelineOf(data, dateRange, today)

DayWidthNow == dayWidths[zoomLevel]

BarNow(item) == BarOf(item, TimelineNow.timelineStart, DayWidthNow)

RowsOf(id) == {i \in DOMAIN VisibleNow : VisibleNow[i].id = id}

ItemsOf(id) == {i \in DOMAIN data : data[i].id = id}

\* C11: every dependency arrow on screen joins two visible rows, leaves at
\* the right end of the bar drawn for the predecessor and arrives at the
\* left end of the bar drawn for the successor.
CexC11_ArrowsJoinBarEnds ==
    \A n \in DOMAIN RenderedLines :
        LET line == RenderedLines[n]
        IN /\ \E i \in RowsOf(line.from) :
                /\ BarNow(VisibleNow[i]).rendered
                /\ line.fromX = BarNow(VisibleNow[i]).left + BarNow(VisibleNow[i]).width
           /\ \E j \in RowsOf(line.to) :
                /\ BarNow(VisibleNow[j]).rendered
                /\ line.toX = BarNow(VisibleNow[j]).left

\* C12: every dependency arrow on screen joins two rows of the same type and
\* the same parentId; a dependency on an item of another type or another
\* parent is drawn as no arrow.
CexC12_ArrowsJoinSiblings ==
    \A n \in DOMAIN RenderedLines :
        \E i \in RowsOf(RenderedLines[n].from), j \in RowsOf(RenderedLines[n].to) :
            /\ VisibleNow[i].type = VisibleNow[j].type
            /\ VisibleNow[i].parentId = VisibleNow[j].parentId

\* the T1 / T2 scenario on screen: day zoom, no date override, arrows shown
ScenarioT1T2Shown ==
    /\ data = ScenarioT1T2
    /\ zoomLevel = "day"
    /\ dateRange = NoRange
    /\ showDependencies

\* C13 as stated: in the scenario the connector leaves at x = 3 * 40 = 120
\* and arrives at x = 120.
CexC13_ConnectorAt120 ==
    ScenarioT1T2Shown =>
        /\ Len(RenderedLines) = 1
        /\ RenderedLines[1].fromX = 3 * 40
        /\ RenderedLines[1].toX = 120

\* C13, amended: in the scenario the timeline starts two days before the
\* start of T1, so the one connector leaves at x = 5 * 40 = 200, the right
\* end of the bar of T1, and arrives at x = 200, the left end of the bar of T2.
ThmC13_ConnectorAt200 ==
    ScenarioT1T2Shown =>
        /\ Len(RenderedLines) = 1
        /\ RenderedLines[1].from = 1 /\ RenderedLines[1].to = 2
        /\ RenderedLines[1].fromX = 5 * 40
        /\ RenderedLines[1].toX = 200
        /\ RenderedLines[1].fromX = BarNow(data[1]).left + BarNow(data[1]).width
        /\ RenderedLines[1].toX = BarNow(data[2]).left

\* the scenario is on screen again after the zoom buttons were used
WitC13_ScenarioShown ==
    /\ ScenarioT1T2Shown
    /\ lastOp.op = "setZoomLevel"
    /\ Len(RenderedLines) = 1

HeadersNow ==
    timelineHeaders(TimelineNow.timelineStart, TimelineNow.totalDays,
                    zoomLevel, DayWidthNow)

\* C14: at every zoom level and for every start of the timeline the widths
\* of the headers sum to totalDays * dayWidth, and every day of the timeline
\* gives its dayWidth to exactly one header: the first header starts on the
\* first day of the timeline and stands for one or more whole days, and every
\* other header starts on the day after the last day of the header before it.
ThmC14_HeaderWidthsCoverTimeline ==
    LET headers == HeadersNow
        timeline == TimelineNow
        dayWidth == DayWidthNow
    IN /\ totalTimelineWidth(headers) = timeline.totalDays * dayWidth
       /\ \A k \in DOMAIN headers :
             /\ headers[k].width % dayWidth = 0
             /\ headers[k].width > 0
             /\ headers[k].first =
                   IF k = 1 THEN timeline.timelineStart
                   ELSE headers[k - 1].first + headers[k - 1].width \div dayWidth

\* one task of 365 days from 2024-01-31 on, shown by month: the 371 days of
\* the timeline, 2024-01-29 .. 2025-02-03, fall into fourteen headers
WitC14_LeapYearByMonth ==
    /\ data \in RangeLists
    /\ data[1].start = DaysFromCivil(2024, 1, 31)
    /\ data[1].end - data[1].start + 1 = 365
    /\ dateRange = NoRange
    /\ zoomLevel = "month"
    /\ TimelineNow.totalDays = 371
    /\ Len(HeadersNow) = 14

\* an item with a date that does not parse
HasInvalidDate(item) == item.start = NaD \/ item.end = NaD

\* the list in which the items with an invalid date have no dates at all
WithoutInvalidDated(d) ==
    [i \in DOMAIN d |->
        IF HasInvalidDate(d[i])
        THEN [d[i] EXCEPT !.start = NaD, !.end = NaD]
        ELSE d[i]]

\* C15: an item with an invalid start or end takes no part in the range of
\* the timeline, so the timeline and the bars of the other rows are those of
\* the list without that item's dates; it has no bar when its start is
\* invalid; no arrow leaves a row with an invalid end or arrives at a row
\* with an invalid start.
CexC15_InvalidDatedItemsLeftOut ==
    /\ TimelineNow = TimelineOf(WithoutInvalidDated(data), dateRange, today)
    /\ \A i \in DOMAIN VisibleNow :
          VisibleNow[i].start = NaD => ~BarNow(VisibleNow[i]).rendered
    /\ \A n \in DOMAIN RenderedLines :
          /\ \A i \in ItemsOf(RenderedLines[n].from) : data[i].end # NaD
          /\ \A j \in ItemsOf(RenderedLines[n].to) : data[j].start # NaD

\* C16: every task of the task list has a concrete position, however the
\* list came into being and whatever was removed, connected, undone or
\* redone since.
CexC16_EveryTaskPlaced ==
    \A i \in DOMAIN tasks : tasks[i].position # NoPosition

\* the nodes on a cycle
OnCycle ==
    LET E == EdgeSet
    IN {u \in IdsOf(Nodes) : u \in ReachableVia(E, {e[2] : e \in {d \in E : d[1] = u}})}

\* the nodes on a cycle and the nodes reachable from one
BehindCycle == ReachableVia(EdgeSet, OnCycle)

\* the levels of a node list of the mounted component
LevelsOf(nodes) == IF view = "App" THEN TasksPerLevel(nodes) ELSE SubStepLevels(nodes)

\* C17: after auto-layout of a graph with a cycle the nodes on a cycle or
\* behind one are, in the order of the list, the one last column; no column
\* before it holds any of them, and the columns before it are the columns
\* of the layout of the list without those nodes.
ThmC17_CycleNodesInFinalColumn ==
    (layoutRuns >= 1 /\ ~Acyclic) =>
        LET stuck == BehindCycle
            others == SelectSeq(Nodes, LAMBDA n : n.id \notin stuck)
        IN /\ Len(levels) >= 1
           /\ levels[Len(levels)] = SelectSeq(IdSeq(Nodes), LAMBDA id : id \in stuck)
           /\ \A k \in 1..(Len(levels) - 1) : Range(levels[k]) \cap stuck = {}
           /\ SubSeq(levels, 1, Len(levels) - 1) =
                 (IF Len(others) = 0 THEN <<>> ELSE LevelsOf(others))
           /\ view = "App" =>
                 \A id \in stuck : XColumn(NodeOf(id)) = Len(levels) - 1

\* a laid-out graph with a wave column, a node on a cycle and a node that
\* is only behind the cycle
WitC17_CycleAndFollower ==
    /\ layoutRuns >= 1
    /\ view = "TaskDetailModal"
    /\ Len(levels) >= 2
    /\ OnCycle # {}
    /\ BehindCycle \ OnCycle # {}

\* the position, the x and the top of column k (from 1) after the layout
PosOf(id) == NodeOf(id).position

ColumnX(k) == PosOf(levels[k][1]).x

ColumnTop(k) == PosOf(levels[k][1]).y

\* the width of the widest card of column k
ColumnCardWidth(k) ==
    IF view = "App" THEN CARD_WIDTH
    ELSE MaxOf({CardDimensions(subSteps, cardHeights)[id].width : id \in Range(levels[k])})

ColumnSpacing == IF view = "App" THEN HORIZONTAL_SPACING ELSE hSpacing

\* C18 as stated: every node of column k+1 has
\* x >= x of column k + card width of column k + horizontal spacing.
CexC18_EveryColumnOffset ==
    layoutRuns >= 1 =>
        \A k \in 1..(Len(levels) - 1) : \A id \in Range(levels[k + 1]) :
            PosOf(id).x >= ColumnX(k) + ColumnCardWidth(k) + ColumnSpacing

\* C18, amended: all nodes of a column have the same x; at the task level
\* column k+1 is exactly 380 + 60 right of column k; at the sub-step level
\* column k+1 is either on the row of column k, exactly the widest card of
\* column k + 60 right of it, or it starts a new row at x = 10 below.
ThmC18_ColumnOffsetUnlessWrapped ==
    layoutRuns >= 1 =>
        /\ \A k \in DOMAIN levels : \A id \in Range(levels[k]) :
              PosOf(id).x = ColumnX(k)
        /\ \A k \in 1..(Len(levels) - 1) :
              IF view = "App"
              THEN ColumnX(k + 1) = ColumnX(k) + CARD_WIDTH + HORIZONTAL_SPACING
              ELSE IF ColumnTop(k + 1) = ColumnTop(k)
                   THEN ColumnX(k + 1) = ColumnX(k) + ColumnCardWidth(k) + hSpacing
                   ELSE ColumnX(k + 1) = 10 /\ ColumnTop(k + 1) > ColumnTop(k)

\* three sub-step columns: the second beside the first, the third wrapped
WitC18_SecondBesideThirdWrapped ==
    /\ layoutRuns >= 1
    /\ view = "TaskDetailModal"
    /\ Len(levels) = 3
    /\ ColumnTop(2) = ColumnTop(1) /\ ColumnX(2) > ColumnX(1)
    /\ ColumnX(3) = 10 /\ ColumnTop(3) > ColumnTop(2)

\* the place of the id in the node list
IndexOf(id) == CHOOSE i \in DOMAIN Nodes : Nodes[i].id = id

\* C19: in every column the nodes are stacked from the top in the order in
\* which they stand in the node list, whatever the order of the outgoing
\* lists.
CexC19_ColumnsInListOrder ==
    layoutRuns >= 1 =>
        \A k \in DOMAIN levels : \A a, b \in Range(levels[k]) :
            IndexOf(a) < IndexOf(b) => PosOf(a).y < PosOf(b).y

\* the height of column k: its cards and the spacing between them
ColumnHeight(k) ==
    SumSeq([n \in DOMAIN levels[k] |->
               CardDimensions(subSteps, cardHeights)[levels[k][n]].height])
    + (Len(levels[k]) - 1) * vSpacing

\* the columns up to column k that stand on the row of column k
RowUpTo(k) == {j \in 1..k : ColumnTop(j) = ColumnTop(k)}

\* C20: after the sub-step layout a column stands at x > 10 only if it ends,
\* spacing included, within the canvas width, and then it continues the row
\* of the column before it; any other column but the first stands at x = 10
\* on a new row, below the row before it by that row's greatest column
\* height plus 40, and it would not have fitted on that row.
ThmC20_ColumnsWrapAtCanvasWidth ==
    (layoutRuns >= 1 /\ view = "TaskDetailModal") =>
        \A k \in DOMAIN levels :
            /\ ColumnX(k) >= 10
            /\ k = 1 => ColumnX(k) = 10 /\ ColumnTop(k) = 10
            /\ ColumnX(k) > 10 =>
                  /\ ColumnX(k) + ColumnCardWidth(k) + hSpacing <= canvasWidth
                  /\ ColumnTop(k) = ColumnTop(k - 1)
                  /\ ColumnX(k) = ColumnX(k - 1) + ColumnCardWidth(k - 1) + hSpacing
            /\ (k > 1 /\ ColumnX(k) = 10) =>
                  /\ ColumnTop(k) = ColumnTop(k - 1)
                                    + MaxOf({ColumnHeight(j) : j \in RowUpTo(k - 1)}) + 40
                  /\ ColumnX(k - 1) + ColumnCardWidth(k - 1) + hSpacing
                     + ColumnCardWidth(k) + hSpacing > canvasWidth

\* three columns on a canvas 800 wide: two on the first row, of which the
\* first holds the tall card, and the third wrapped below them
WitC20_ThirdColumnWrapped ==
    /\ layoutRuns >= 1
    /\ view = "TaskDetailModal"
    /\ canvasWidth = 800
    /\ Len(levels) = 3
    /\ ColumnX(2) > 10
    /\ ColumnX(3) = 10
    /\ ColumnTop(3) = 10 + 160 + 40

\* the rectangle of the card of a sub-step: its position and measured size
CardRect(id) ==
    LET dims == CardDimensions(subSteps, cardHeights)[id]
    IN [left |-> PosOf(id).x, top |-> PosOf(id).y,
        right |-> PosOf(id).x + dims.width, bottom |-> PosOf(id).y + dims.height]

RectsOverlap(r, q) ==
    /\ r.left < q.right /\ q.left < r.right
    /\ r.top < q.bottom /\ q.top < r.bottom

\* C21: after the sub-step layout no two cards overlap, and the stored
\* canvas size is the bounding box of the cards plus 20, so every card lies
\* inside it.
ThmC21_CardsDisjointInsideCanvas ==
    (layoutRuns >= 1 /\ view = "TaskDetailModal" /\ Len(subSteps) > 0) =>
        /\ \A a, b \in IdsOf(subSteps) :
              a # b => ~RectsOverlap(CardRect(a), CardRect(b))
        /\ \A a \in IdsOf(subSteps) :
              /\ CardRect(a).left >= 0 /\ CardRect(a).top >= 0
              /\ CardRect(a).right + 20 <= subStepCanvasSize.width
              /\ CardRect(a).bottom + 20 <= subStepCanvasSize.height
        /\ subStepCanvasSize.width =
              MaxOf({CardRect(a).right : a \in IdsOf(subSteps)}) + 20
        /\ subStepCanvasSize.height =
              MaxOf({CardRect(a).bottom : a \in IdsOf(subSteps)}) + 20

\* a column of two cards wrapped below the tall card of the first column
WitC21_WrappedColumnOfTwo ==
    /\ layoutRuns >= 1
    /\ view = "TaskDetailModal"
    /\ Len(levels) = 2
    /\ Len(levels[2]) = 2
    /\ ColumnX(2) = 10
    /\ ColumnTop(2) = 10 + 160 + 40

\* the two node lists are the same nodes in the same order with the same
\* fields, positions apart
SameButPositions(before, after) ==
    /\ Len(after) = Len(before)
    /\ \A i \in DOMAIN before :
          [after[i] EXCEPT !.position = before[i].position] = before[i]

\* a step is a run of one of the two layouts
LayoutStep ==
    lastOp'.op \in {"onAutoLayout", "handleAutoLayoutSubSteps"}
    /\ layoutRuns' = layoutRuns + 1

\* C22 as stated: a layout run changes nothing of the task and sub-step
\* model but node positions; the canvas size stored in the task
\* (extendedDetails.subStepCanvasSize) is a field of that model.
CexC22_OnlyPositionsWritten ==
    [][LayoutStep =>
          /\ SameButPositions(tasks, tasks')
          /\ SameButPositions(subSteps, subSteps')
          /\ subStepCanvasSize' = subStepCanvasSize]_vars

\* C22, amended: a layout run leaves the nodes, their order, their outgoing
\* lists and their other fields as they are and writes node positions; the
\* sub-step layout of a non-empty list also writes the stored canvas size,
\* the bounding box of the cards plus 20.
ThmC22_PositionsAndCanvasSizeWritten ==
    [][LayoutStep =>
          /\ SameButPositions(tasks, tasks')
          /\ SameButPositions(subSteps, subSteps')
          /\ subStepCanvasSize' =
                IF lastOp'.op = "handleAutoLayoutSubSteps" /\ Len(subSteps) > 0
                THEN RequiredCanvasSize(
                         SubStepNewPositions(SubStepLevels(subSteps),
                                             CardDimensions(subSteps, cardHeights),
                                             canvasWidth),
                         CardDimensions(subSteps, cardHeights))
                ELSE subStepCanvasSize]_vars

\* sub-steps with an entry that names no sub-step were laid out: the
\* positions and the canvas size are new, the entry is still there
WitC22_SubStepsLaidOutCanvasResized ==
    /\ layoutRuns >= 1
    /\ view = "TaskDetailModal"
    /\ Len(subSteps) >= 2
    /\ HasDanglingEntry
    /\ subStepCanvasSize # DefaultCanvasSize
    /\ \A i \in DOMAIN subSteps : subSteps[i].position # NoPosition

\* the edges of a node list: source id and entry of its outgoing list
EdgesOf(nodes) ==
    UNION {{<<n.id, t>> : t \in Range(n.nextSubStepIds)} : n \in Range(nodes)}

\* the outgoing list of the sub-step id in a node list, <<>> without it
OutListOf(nodes, id) ==
    IF id \in IdsOf(nodes)
    THEN (CHOOSE n \in Range(nodes) : n.id = id).nextSubStepIds
    ELSE <<>>

\* a step is a click on the connector a -> b of the sub-step canvas
DeleteConnectionStep == lastOp'.op = "handleDeleteConnection"

InvalidIdStep ==
    \/ /\ lastOp'.op \in {"handleRemoveTask", "handleUpdateTaskPosition",
                          "onDeleteTaskConnection"}
       /\ lastOp'.a \notin IdsOf(tasks)
    \/ /\ lastOp'.op \in {"handleRemoveSubStep", "handleDeleteSubStep"}
       /\ lastOp'.a \notin IdsOf(subSteps)
    \/ /\ lastOp'.op = "handleDeleteConnection"
       /\ (lastOp'.a \notin IdsOf(subSteps) \/ lastOp'.b \notin IdsOf(subSteps))
    \/ /\ lastOp'.op = "handleEndConnection"
       /\ connectingState # Idle
       /\ connectingState.fromId \notin IdsOf(subSteps)
    \/ /\ lastOp'.op \in {"handleSubStepDrop", "handleCanvasDrop"}
       /\ draggedSubStepId # 0
       /\ draggedSubStepId \notin IdsOf(subSteps)

\* C24: a graph operation called with an id that is not in the graph is
\* carried out (the handler has a step for it) and leaves the node lists of
\* both levels as they are: the same nodes, outgoing lists and positions.
ThmC24_InvalidIdsIgnored ==
    [][InvalidIdStep => tasks' = tasks /\ subSteps' = subSteps]_vars

\* second editor: a drag started on a sub-step that was deleted before the
\* release on the card of another; the remaining sub-step is as it was
WitC24_ReleaseAfterSourceDeleted ==
    /\ view = "TaskDetailModal2"
    /\ lastOp.op = "handleEndConnection"
    /\ lastOp.a # 0
    /\ lastOp.a \notin IdsOf(subSteps)
    /\ lastOp.b \in IdsOf(subSteps)
    /\ connectingState = Idle
    /\ \A n \in Range(subSteps) : n.nextSubStepIds = <<>>

\* a step changes the expanded set or the action-item filter
ExpandOrFilterStep == lastOp'.op \in {"toggleExpand", "setActionFilter"}

\* C25: two states that differ in the expanded set or the action-item filter
\* only have the same timelineStart, the same totalDays and the same
\* headers: expanding, collapsing and filtering rows leave timelineStart and
\* totalDays as they are, whatever the item list and the date-range
\* override, and leave the zoom, of which together with timelineStart and
\* totalDays the headers are a function (timelineHeaders).
ThmC25_TimeAxisIgnoresRowsShown ==
    [][ExpandOrFilterStep =>
          /\ TimelineNow' = TimelineNow
          /\ zoomLevel' = zoomLevel
          /\ DayWidthNow' = DayWidthNow]_vars

\* under a date-range override a row was collapsed while the action items
\* are filtered: the rows shown are fewer than the items
WitC25_CollapsedAndFilteredUnderOverride ==
    /\ view = "GanttChartView"
    /\ lastOp.op = "toggleExpand"
    /\ dateRange # NoRange
    /\ actionFilter # "all"
    /\ lastOp.a \notin expandedItems
    /\ Len(VisibleNow) < Len(data)
    /\ Len(HeadersNow) > 0

\* the first and the last day of the view: the date-range override where it
\* is set, else the earliest valid start and the latest valid end of the
\* items (the clock and a month after it when a kind of date is missing)
ViewNow ==
    LET startDates == ValidDates([i \in DOMAIN data |-> data[i].start])
        endDates == ValidDates([i \in DOMAIN data |-> data[i].end])
        noDates == startDates = <<>> \/ endDates = <<>>
        projectMinDate == IF noDates THEN today ELSE MinOf(Range(startDates))
        projectMaxDate == IF noDates THEN AddMonth(today) ELSE MaxOf(Range(endDates))
    IN [start |-> IF dateRange.start # NaD THEN dateRange.start ELSE projectMinDate,
        end |-> IF dateRange.end # NaD THEN dateRange.end ELSE projectMaxDate]

\* C26: for a non-empty item list the timeline starts 2 days before the view
\* start and ends 5 days after the view end, the view end being the view
\* start when it would precede it; so totalDays is at least 7 and there is a
\* header.
CexC26_TimelinePadsClampedView ==
    (view = "GanttChartView" /\ Len(data) > 0) =>
        LET viewStart == ViewNow.start
            viewEnd == Max(ViewNow.end, ViewNow.start)
        IN /\ TimelineNow.timelineStart = viewStart - 2
           /\ TimelineNow.timelineStart + TimelineNow.totalDays = viewEnd + 5
           /\ TimelineNow.totalDays >= 7
           /\ Len(HeadersNow) > 0

\* the visible rows that get a bar
RowsWithBar == {i \in DOMAIN VisibleNow : BarNow(VisibleNow[i]).rendered}

\* the whole days from start to end, both counted; 0 for an end that is no
\* date or lies before the start
WholeDays(item) ==
    IF item.end # NaD /\ item.end >= item.start
    THEN item.end - item.start + 1
    ELSE 0

\* C27: the bar of a visible row is at left = days from timelineStart to the
\* start * dayWidth and is max(0.2, end - start + 1) days * dayWidth wide;
\* so its width is positive and at least a fifth of a day (8, 3 and 1 px at
\* day, week and month zoom), also for an end on the start day, before the
\* start, or that is no date.
ThmC27_BarsAtLeastFifthOfDayWide ==
    view = "GanttChartView" =>
        \A i \in RowsWithBar :
            LET item == VisibleNow[i]
                bar == BarNow(item)
                fifth == [day |-> 8, week |-> 3, month |-> 1][zoomLevel]
            IN /\ bar.left = (item.start - TimelineNow.timelineStart) * DayWidthNow
               /\ bar.width = IF WholeDays(item) >= 1
                              THEN WholeDays(item) * DayWidthNow
                              ELSE fifth
               /\ bar.width >= fifth
               /\ bar.width > 0

\* at week zoom a row whose end lies before its start has a bar of 3 px and
\* a row that ends on its start day one of 15 px
WitC27_FloorBarAtWeekZoom ==
    /\ view = "GanttChartView"
    /\ zoomLevel = "week"
    /\ \E i \in RowsWithBar :
          /\ VisibleNow[i].end # NaD
          /\ VisibleNow[i].end < VisibleNow[i].start
          /\ BarNow(VisibleNow[i]).width = 3
    /\ \E i \in RowsWithBar :
          /\ VisibleNow[i].end = VisibleNow[i].start
          /\ BarNow(VisibleNow[i]).width = 15

\* at month zoom a row whose end is no date has a bar of 1 px
InvalidEndBarAtMonthZoom ==
    /\ view = "GanttChartView"
    /\ zoomLevel = "month"
    /\ \E i \in RowsWithBar :
          VisibleNow[i].end = NaD /\ BarNow(VisibleNow[i]).width = 1

\* the days of the timeline
TimelineDays ==
    TimelineNow.timelineStart ..
        (TimelineNow.timelineStart + TimelineNow.totalDays - 1)

\* the day after the last day of header k
HeaderEnd(headers, k) ==
    IF k < Len(headers) THEN headers[k + 1].first
    ELSE TimelineNow.timelineStart + TimelineNow.totalDays

\* C28: at week zoom a header starts on every Monday of the timeline and on
\* its first day, and on no other day; each header is 15 px for every day up
\* to the next header, so a header other than the first and the last is 7
\* days (105 px) and none is more; the days of one header have one ISO week
\* number, the one of the header's label.
ThmC28_WeekHeadersOnMondays ==
    (view = "GanttChartView" /\ zoomLevel = "week") =>
        LET headers == HeadersNow
        IN /\ {headers[k].first : k \in DOMAIN headers} =
                 {d \in TimelineDays :
                     GetDay(d) = 1 \/ d = TimelineNow.timelineStart}
           /\ \A k \in DOMAIN headers :
                 /\ k > 1 => headers[k - 1].first < headers[k].first
                 /\ headers[k].width =
                       15 * (HeaderEnd(headers, k) - headers[k].first)
                 /\ headers[k].width <= 7 * 15
                 /\ (1 < k /\ k < Len(headers)) => headers[k].width = 7 * 15
                 /\ \A d \in headers[k].first .. (HeaderEnd(headers, k) - 1) :
                       getWeekNumber(d) = getWeekNumber(headers[k].first)

\* a timeline of more than a year that starts on a Saturday: the first
\* header is two days, and a week 52 is followed by a week 1
WitC28_YearOfWeeksFromSaturday ==
    /\ view = "GanttChartView"
    /\ zoomLevel = "week"
    /\ GetDay(TimelineNow.timelineStart) = 6
    /\ Len(HeadersNow) >= 53
    /\ HeadersNow[1].width = 2 * 15
    /\ \E k \in 2..(Len(HeadersNow) - 1) :
          /\ getWeekNumber(HeadersNow[k].first) = 52
          /\ getWeekNumber(HeadersNow[k + 1].first) = 1

\* the task list and the two stacks of the board
Board == [tasks |-> tasks, history |-> history, redoHistory |-> redoHistory]

\* what a redo makes of a board with a non-empty redo stack
RedoOf(b) ==
    [tasks |-> b.redoHistory[1],
     history |-> Append(b.history, b.tasks),
     redoHistory |-> Tail(b.redoHistory)]

\* a step is a mutation of the task list that is recorded in the history
RecordedStep ==
    lastOp'.op \in {"handleAddTaskFromModal", "handleRemoveTask", "onAutoLayout"}

CexC30_EveryValidStartHasBar ==
    view = "GanttChartView" =>
        \A i \in DOMAIN VisibleNow :
            BarNow(VisibleNow[i]).rendered <=> VisibleNow[i].start # NaD

=============================================================================
